---- MODULE Spec2Model ----
(***************************************************************************)
(* Label & retention lifecycle of the video platform: the label catalog,  *)
(* the assignment store, the retention calculator, the auto-assigner, the *)
(* labels endpoint and the cleanup job, over the relational datastore.    *)
(*                                                                         *)
(* Conventions.  A nullable column holds the empty set for NULL and a      *)
(* singleton {x} for the value x.  Instants are whole days since an epoch; *)
(* confidences are in ten-thousandths (0.75 is 7500).                      *)
(***************************************************************************)
EXTENDS Integers, Sequences, FiniteSets, TLC

VARIABLES
    videos,                 \* table videos: id -> row, the domain is the stored ids
    videoLabels,            \* table video_labels: a set of rows
    videoLabelAssignments,  \* table video_label_assignments: a set of rows
    comments,               \* table comments: video id -> number of rows
    spaceVideos,            \* table space_videos: video id -> number of rows
    sharedVideos,           \* table shared_videos: video id -> number of rows
    cleanup,                \* the running cleanupExpiredVideos call, or idle
    req,                    \* the response of the request served last, until returned
    rerun,                  \* arguments and outcome of an autoAssignLabels call to repeat
    batch,                  \* the running classifyAllVideos call, or idle
    procs                   \* the calls under way at the same time: name -> local state

vars == <<videos, videoLabels, videoLabelAssignments, comments, spaceVideos,
          sharedVideos, cleanup, req, rerun, batch, procs>>

jobs == <<batch, procs>>

tables == <<videos, videoLabels, videoLabelAssignments, comments, spaceVideos,
            sharedVideos>>

----------------------------------------------------------------------------
(* Bounds of the model *)

MaxLabelIds == 2        \* longest labelIds array of a POST body
MaxSuggestions == 2     \* longest classification.labels list
MaxRows == 1            \* dependent rows of each kind a video starts with
MaxObjects == 1         \* most objects the asset store lists under a prefix
MaxTicks == 3           \* the clock of a cleanup run reads tick 1..MaxTicks
DaysPerTick == 7        \* granularity of the clock readings, in days

----------------------------------------------------------------------------
(* Nullable values *)

Null == {}
Some(x) == {x}
IsNull(o) == o = {}
Get(o) == CHOOSE x \in o : TRUE

Min(S) == CHOOSE m \in S : \A x \in S : m <= x

Range(s) == {s[i] : i \in 1..Len(s)}

----------------------------------------------------------------------------
(* The world the model runs in *)

VideoIds == {"v1", "v2"}
Users == {"u1"}                \* the users who post label changes

\* The rows seeded for an organization that the model keeps: two labels
\* with a retention, one without.
SeededLabels ==
    { [id |-> "l1", organizationId |-> "org1", name |-> "TROUBLESHOOTING",
       displayName |-> "Troubleshooting", retentionDays |-> Some(14),
       isSystem |-> TRUE, isActive |-> TRUE,
       category |-> "content_type"],
      [id |-> "l2", organizationId |-> "org1", name |-> "MEETING_RECORDING",
       displayName |-> "Meeting Recording", retentionDays |-> Some(30),
       isSystem |-> TRUE, isActive |-> TRUE,
       category |-> "content_type"],
      [id |-> "l3", organizationId |-> "org1", name |-> "TECH",
       displayName |-> "Tech", retentionDays |-> Null,
       isSystem |-> TRUE, isActive |-> TRUE,
       category |-> "department"] }

LabelIds == {l.id : l \in SeededLabels}

\* A video as the upload path stores it: no retention decision yet, not
\* transcribed, not classified (rag_status DEFAULT 'pending').
NewVideo(owner, org, created) ==
    [ownerId |-> owner, orgId |-> org, createdAt |-> created,
     keepPermanently |-> FALSE, expiresAt |-> Null,
     transcriptionStatus |-> Null, aiSuggestedLabels |-> Null,
     aiClassifiedAt |-> Null, ragStatus |-> "pending"]

\* The same video once its transcription is stored.
Transcribed(video) == [video EXCEPT !.transcriptionStatus = Some("COMPLETE")]

InitialVideos ==
    [v \in VideoIds |->
        IF v = "v1" THEN Transcribed(NewVideo("u1", "org1", 1))
        ELSE Transcribed(NewVideo("u2", "org1", 0))]

----------------------------------------------------------------------------
(* Label catalog: the system vocabulary and its seeding *)

SYSTEM_LABELS ==
    [content_type |->
        << [name |-> "TUTORIAL", displayName |-> "Tutorial", retentionDays |-> Null],
           [name |-> "ONBOARDING", displayName |-> "Onboarding", retentionDays |-> Null],
           [name |-> "PROCESS", displayName |-> "Process", retentionDays |-> Null],
           [name |-> "DEMO", displayName |-> "Demo", retentionDays |-> Null],
           [name |-> "TROUBLESHOOTING", displayName |-> "Troubleshooting",
            retentionDays |-> Some(14)],
           [name |-> "QUICK_ANSWER", displayName |-> "Quick Answer",
            retentionDays |-> Some(14)],
           [name |-> "MEETING_RECORDING", displayName |-> "Meeting Recording",
            retentionDays |-> Some(30)],
           [name |-> "CLIENT_CALL", displayName |-> "Client Call",
            retentionDays |-> Some(30)],
           [name |-> "ANNOUNCEMENT", displayName |-> "Announcement",
            retentionDays |-> Some(90)] >>,
     department |->
        << [name |-> "SALES", displayName |-> "Sales"],
           [name |-> "TECH", displayName |-> "Tech"],
           [name |-> "PRODUCT", displayName |-> "Product"],
           [name |-> "COMPLIANCE", displayName |-> "Compliance"],
           [name |-> "FINANCE", displayName |-> "Finance"],
           [name |-> "HR", displayName |-> "HR"],
           [name |-> "SUPPORT", displayName |-> "Support"],
           [name |-> "MARKETING", displayName |-> "Marketing"] >>]

\* nanoId(): an id no other row has.
LabelId(organizationId, name) == organizationId \o "/" \o name

\* The rows seedSystemLabels inserts for an organization, in its order:
\* the content types, then the departments.
SeedRows(organizationId) ==
    [k \in 1..Len(SYSTEM_LABELS.content_type) |->
        [id |-> LabelId(organizationId, SYSTEM_LABELS.content_type[k].name),
         organizationId |-> organizationId,
         name |-> SYSTEM_LABELS.content_type[k].name,
         displayName |-> SYSTEM_LABELS.content_type[k].displayName,
         retentionDays |-> SYSTEM_LABELS.content_type[k].retentionDays,
         isSystem |-> TRUE, isActive |-> TRUE, category |-> "content_type"]]
    \o
    [k \in 1..Len(SYSTEM_LABELS.department) |->
        [id |-> LabelId(organizationId, SYSTEM_LABELS.department[k].name),
         organizationId |-> organizationId,
         name |-> SYSTEM_LABELS.department[k].name,
         displayName |-> SYSTEM_LABELS.department[k].displayName,
         retentionDays |-> Null,
         isSystem |-> TRUE, isActive |-> TRUE, category |-> "department"]]

\* UNIQUE KEY org_name_unique (organization_id, name).
ViolatesOrgName(labels, row) ==
    \E l \in labels : l.organizationId = row.organizationId /\ l.name = row.name

\* The select of seedSystemLabels: the organization's system labels.
SystemLabelsOf(labels, organizationId) ==
    {l \in labels : l.organizationId = organizationId /\ l.isSystem}

RECURSIVE SeedLoop(_, _, _, _)
\* Inserts k.. of the rows, one statement each; the first one the
\* datastore rejects raises and ends the call.  failAt: the insert that
\* fails for a reason of the datastore's own (0: none).
SeedLoop(st, rows, k, failAt) ==
    IF st.threw \/ k > Len(rows) THEN st
    ELSE IF k = failAt \/ ViolatesOrgName(st.labels, rows[k])
         THEN [st EXCEPT !.threw = TRUE]
         ELSE SeedLoop([st EXCEPT !.labels = @ \cup {rows[k]}], rows, k + 1, failAt)

\* Variant: the call does not look for labels seeded earlier.
seedSystemLabels_NoCheck(labels, organizationId, failAt) ==
    SeedLoop([labels |-> labels, threw |-> FALSE], SeedRows(organizationId), 1, failAt)

\* seedSystemLabels: the catalog after the call, and whether it raised.
seedSystemLabels(labels, organizationId, failAt) ==
    IF SystemLabelsOf(labels, organizationId) # {}
    THEN [labels |-> labels, threw |-> FALSE]
    ELSE SeedLoop([labels |-> labels, threw |-> FALSE], SeedRows(organizationId), 1, failAt)

----------------------------------------------------------------------------
(* Retention calculator *)

\* Date.setDate(getDate() + n): calendar-day addition.
AddDays(instant, n) == instant + n

\* The labels joined to a video's assignments (inner join on the label id).
AssignedLabels(labels, assignments, videoId) ==
    {l \in labels : \E a \in assignments : a.videoId = videoId /\ a.labelId = l.id}

\* Variant: the keepPermanently override is missing.
computeExpiresAt_IgnoresKeep(video, labels) ==
    LET retentionDays == UNION {l.retentionDays : l \in labels}
    IN IF retentionDays = {} THEN Null
       ELSE Some(AddDays(video.createdAt, Min(retentionDays)))

\* Variant: the longest retention wins.
computeExpiresAt_Longest(video, labels) ==
    IF video.keepPermanently THEN Null
    ELSE LET retentionDays == UNION {l.retentionDays : l \in labels}
         IN IF retentionDays = {} THEN Null
            ELSE Some(AddDays(video.createdAt,
                              CHOOSE m \in retentionDays : \A x \in retentionDays : m >= x))

computeExpiresAt(video, labels) ==
    IF video.keepPermanently THEN Null
    ELSE LET retentionDays == UNION {l.retentionDays : l \in labels}
         IN IF retentionDays = {} THEN Null
            ELSE Some(AddDays(video.createdAt, Min(retentionDays)))

\* updateVideoExpiration: the videos table after the call.
updateVideoExpiration(vs, labels, assignments, videoId) ==
    IF videoId \notin DOMAIN vs THEN vs
    ELSE [vs EXCEPT ![videoId].expiresAt =
            computeExpiresAt(vs[videoId], AssignedLabels(labels, assignments, videoId))]

----------------------------------------------------------------------------
(* Assignment store *)

AssignmentRow(videoId, labelId, by, ai, confidence) ==
    [videoId |-> videoId, labelId |-> labelId, assignedById |-> by,
     isAiSuggested |-> ai, aiConfidence |-> confidence]

\* UNIQUE KEY video_label_unique (video_id, label_id): whether inserting the
\* rows of the sequence in one statement violates it.
ViolatesUnique(assignments, rows) ==
    \/ \E i \in 1..Len(rows) : \E a \in assignments :
          a.videoId = rows[i].videoId /\ a.labelId = rows[i].labelId
    \/ \E i, j \in 1..Len(rows) :
          i < j /\ rows[i].videoId = rows[j].videoId /\ rows[i].labelId = rows[j].labelId

----------------------------------------------------------------------------
(* Auto-assigner *)

ConfidenceCutoff == 7500

\* Variant: the catalog is read without the organization and isActive filters.
LabelByName_AnyLabel(labels, organizationId, name) ==
    {l \in labels : l.name = name}

\* labelMap.get(name): the active label of the organization with that name.
LabelByName(labels, organizationId, name) ==
    {l \in labels : l.organizationId = organizationId /\ l.isActive /\ l.name = name}

\* Variant: the iteration does not look for an existing assignment.
AutoAssignStep_NoExistingCheck(st, labels, videoId, organizationId, suggestion, systemUserId, fails) ==
    LET found == LabelByName(labels, organizationId, suggestion.labelName)
        skip == [st EXCEPT !.skipped = Append(@, suggestion.labelName)]
    IN IF suggestion.confidence < ConfidenceCutoff THEN skip
       ELSE IF found = {} THEN skip
       ELSE LET row == AssignmentRow(videoId, Get(found).id, systemUserId, TRUE,
                                     Some(suggestion.confidence))
            IN IF fails \/ ViolatesUnique(st.assignments, <<row>>)
               THEN [st EXCEPT !.threw = TRUE]
               ELSE [st EXCEPT !.assignments = @ \cup {row},
                               !.assigned = Append(@, suggestion.labelName)]

\* Variant: the cutoff excludes the boundary value.
AutoAssignStep_ExclusiveCutoff(st, labels, videoId, organizationId, suggestion, systemUserId, fails) ==
    LET found == LabelByName(labels, organizationId, suggestion.labelName)
        skip == [st EXCEPT !.skipped = Append(@, suggestion.labelName)]
    IN IF suggestion.confidence <= ConfidenceCutoff THEN skip
       ELSE IF found = {} THEN skip
       ELSE LET label == Get(found)
                existing == {a \in st.assignments :
                                a.videoId = videoId /\ a.labelId = label.id}
                row == AssignmentRow(videoId, label.id, systemUserId, TRUE,
                                     Some(suggestion.confidence))
            IN IF existing # {} THEN skip
               ELSE IF fails \/ ViolatesUnique(st.assignments, <<row>>)
                    THEN [st EXCEPT !.threw = TRUE]
                    ELSE [st EXCEPT !.assignments = @ \cup {row},
                                    !.assigned = Append(@, suggestion.labelName)]

\* Variant: an existing assignment is replaced by the suggested one.
AutoAssignStep_Overwrites(st, labels, videoId, organizationId, suggestion, systemUserId, fails) ==
    LET found == LabelByName(labels, organizationId, suggestion.labelName)
        skip == [st EXCEPT !.skipped = Append(@, suggestion.labelName)]
    IN IF suggestion.confidence < ConfidenceCutoff THEN skip
       ELSE IF found = {} THEN skip
       ELSE LET label == Get(found)
                existing == {a \in st.assignments :
                                a.videoId = videoId /\ a.labelId = label.id}
                row == AssignmentRow(videoId, label.id, systemUserId, TRUE,
                                     Some(suggestion.confidence))
            IN IF fails THEN [st EXCEPT !.threw = TRUE]
               ELSE IF existing # {}
                    THEN [st EXCEPT !.assignments = (@ \ existing) \cup {row},
                                    !.skipped = Append(@, suggestion.labelName)]
                    ELSE [st EXCEPT !.assignments = @ \cup {row},
                                    !.assigned = Append(@, suggestion.labelName)]

\* One iteration of the loop over classification.labels; st carries the
\* assignment table and the two result lists.  fails: the datastore rejects
\* the insert of this iteration.
AutoAssignStep(st, labels, videoId, organizationId, suggestion, systemUserId, fails) ==
    LET found == LabelByName(labels, organizationId, suggestion.labelName)
        skip == [st EXCEPT !.skipped = Append(@, suggestion.labelName)]
    IN IF suggestion.confidence < ConfidenceCutoff THEN skip
       ELSE IF found = {} THEN skip
       ELSE LET label == Get(found)
                existing == {a \in st.assignments :
                                a.videoId = videoId /\ a.labelId = label.id}
                row == AssignmentRow(videoId, label.id, systemUserId, TRUE,
                                     Some(suggestion.confidence))
            IN IF existing # {} THEN skip
               ELSE IF fails \/ ViolatesUnique(st.assignments, <<row>>)
                    THEN [st EXCEPT !.threw = TRUE]
                    ELSE [st EXCEPT !.assignments = @ \cup {row},
                                    !.assigned = Append(@, suggestion.labelName)]

RECURSIVE AutoAssignLoop(_, _, _, _, _, _, _, _)
\* Suggestions i.. of the list, in order.  An exception ends the loop.
\* failAt: the iteration whose insert the datastore rejects (0: none).
AutoAssignLoop(st, labels, videoId, organizationId, suggestions, systemUserId, i, failAt) ==
    IF st.threw \/ i > Len(suggestions) THEN st
    ELSE AutoAssignLoop(
            AutoAssignStep(st, labels, videoId, organizationId, suggestions[i],
                           systemUserId, i = failAt),
            labels, videoId, organizationId, suggestions, systemUserId, i + 1, failAt)

\* Variant: the expiration is recomputed only when a label was assigned.
autoAssignLabels_RecomputeIfAssigned(vs, labels, assignments, videoId, organizationId, suggestions, systemUserId, failAt) ==
    LET st0 == [assignments |-> assignments, assigned |-> <<>>, skipped |-> <<>>,
                threw |-> FALSE]
        st == AutoAssignLoop(st0, labels, videoId, organizationId, suggestions,
                             systemUserId, 1, failAt)
    IN IF st.threw \/ st.assigned = <<>> THEN st @@ [videos |-> vs]
       ELSE st @@ [videos |-> updateVideoExpiration(vs, labels, st.assignments, videoId)]

\* autoAssignLabels: the loop, then updateVideoExpiration unless an
\* exception ended the call before it.  failAt = Len(suggestions) + 1: the
\* datastore rejects the update of updateVideoExpiration.
autoAssignLabels(vs, labels, assignments, videoId, organizationId, suggestions, systemUserId, failAt) ==
    LET st0 == [assignments |-> assignments, assigned |-> <<>>, skipped |-> <<>>,
                threw |-> FALSE]
        st == AutoAssignLoop(st0, labels, videoId, organizationId, suggestions,
                             systemUserId, 1, failAt)
    IN IF st.threw THEN st @@ [videos |-> vs]
       ELSE IF failAt = Len(suggestions) + 1 THEN [st EXCEPT !.threw = TRUE] @@ [videos |-> vs]
       ELSE st @@ [videos |-> updateVideoExpiration(vs, labels, st.assignments, videoId)]

----------------------------------------------------------------------------
(* Classifier *)

\* The oracle's message content is a sequence of tokens: code fences, prose,
\* the JSON literal null, or a JSON object with the fields the parser reads
\* (an absent or falsy field is Null).
Fence(lang) == [t |-> "fence", lang |-> lang]
Prose == [t |-> "prose"]
JsonNull == [t |-> "null"]
JsonObject(primary, confidence, secondary, label, departmentConfidence, rag) ==
    [t |-> "object", primary |-> primary, confidence |-> confidence,
     secondary |-> secondary, label |-> label,
     departmentConfidence |-> departmentConfidence, rag_eligibility |-> rag]

\* A falsy number (absent, 0) gives way to the default: x || d.
OrDefault(x, d) == IF x = Null \/ x = Some(0) THEN d ELSE Get(x)

\* Variant: the secondary label keeps the confidence of the primary.
Secondary_NoDiscount(confidence) == confidence

\* confidence * 0.7, in ten-thousandths.
Secondary(confidence) == (confidence * 7) \div 10

FailedParse ==
    [success |-> FALSE, labels |-> <<>>, ragEligibility |-> "pending",
     error |-> "JSON parse error"]

\* parseClassificationResponse: the fences are removed, the rest is parsed;
\* the labels are the primary, the secondary and the department, in this
\* order.  Anything but one JSON object fails, and the failure is a result.
parseClassificationResponse(content) ==
    LET cleaned == SelectSeq(content, LAMBDA tok : tok.t # "fence")
    IN IF Len(cleaned) # 1 \/ cleaned[1].t # "object" THEN FailedParse
       ELSE LET data == cleaned[1]
                primary ==
                    IF data.primary = Null THEN <<>>
                    ELSE <<[labelName |-> Get(data.primary),
                            confidence |-> OrDefault(data.confidence, 8000)]>>
                secondary ==
                    IF data.secondary = Null THEN <<>>
                    ELSE <<[labelName |-> Get(data.secondary),
                            confidence |-> Secondary(OrDefault(data.confidence, 8000))]>>
                department ==
                    IF data.label = Null THEN <<>>
                    ELSE <<[labelName |-> Get(data.label),
                            confidence |-> OrDefault(data.departmentConfidence, 7000)]>>
            IN [success |-> TRUE, labels |-> primary \o secondary \o department,
                ragEligibility |-> IF data.rag_eligibility = Null THEN "pending"
                                   ELSE Get(data.rag_eligibility),
                error |-> "none"]

\* The result of the catch block and of the missing key.
FailedClassification(error) ==
    [success |-> FALSE, labels |-> <<>>, ragEligibility |-> "pending", error |-> error]

\* json.choices?.[0]?.message?.content || "{}"
EmptyObject == <<JsonObject(Null, Null, Null, Null, Null, Null)>>

\* Variant: a failure of the write-back leaves the function as an exception.
classifyVideoLabels_WriteUncaught(vs, videoId, env) ==
    LET none(error) == [result |-> FailedClassification(error), videos |-> vs,
                        threw |-> FALSE, oracleCalled |-> env.configured]
    IN IF ~env.configured THEN none("Missing OPENAI_API_KEY")
       ELSE IF env.reply.kind = "network" THEN none("fetch failed")
       ELSE IF env.reply.kind = "status" THEN none("OpenAI API error")
       ELSE LET parsed == parseClassificationResponse(
                              IF env.reply.content = <<>> THEN EmptyObject
                              ELSE env.reply.content)
            IN IF ~env.writeOk
               THEN [result |-> FailedClassification("datastore"), videos |-> vs,
                     threw |-> TRUE, oracleCalled |-> TRUE]
               ELSE [result |-> parsed,
                     videos |-> IF videoId \in DOMAIN vs
                                THEN [vs EXCEPT ![videoId].aiSuggestedLabels = Some(parsed.labels),
                                                ![videoId].aiClassifiedAt = Some(env.now),
                                                ![videoId].ragStatus = parsed.ragEligibility]
                                ELSE vs,
                     threw |-> FALSE, oracleCalled |-> TRUE]

\* classifyVideoLabels: the result, the videos table after the call, whether
\* an exception left the function and whether the oracle was called.  env:
\* whether the key is configured, the oracle's reply, whether the datastore
\* accepts the update, and the clock.
classifyVideoLabels(vs, videoId, env) ==
    LET none(error) == [result |-> FailedClassification(error), videos |-> vs,
                        threw |-> FALSE, oracleCalled |-> env.configured]
    IN IF ~env.configured THEN none("Missing OPENAI_API_KEY")
       ELSE IF env.reply.kind = "network" THEN none("fetch failed")
       ELSE IF env.reply.kind = "status" THEN none("OpenAI API error")
       ELSE LET parsed == parseClassificationResponse(
                              IF env.reply.content = <<>> THEN EmptyObject
                              ELSE env.reply.content)
            IN IF ~env.writeOk THEN none("datastore")
               ELSE [result |-> parsed,
                     videos |-> IF videoId \in DOMAIN vs
                                THEN [vs EXCEPT ![videoId].aiSuggestedLabels = Some(parsed.labels),
                                                ![videoId].aiClassifiedAt = Some(env.now),
                                                ![videoId].ragStatus = parsed.ragEligibility]
                                ELSE vs,
                     threw |-> FALSE, oracleCalled |-> TRUE]

----------------------------------------------------------------------------
(* POST /api/videos/[videoId]/labels *)

PostFailPoints == {"none", "delete", "insert", "keepPermanently", "expiration"}

\* Variant: the handler replaces the video's assignments by rows of its own.
POST_ReplacesAll(vs, labels, assignments, user, videoId, labelIds, keepPermanently, fail) ==
    IF videoId \notin DOMAIN vs
    THEN [status |-> 404, videos |-> vs, assignments |-> assignments, added |-> 0, removed |-> 0]
    ELSE IF vs[videoId].ownerId # user
    THEN [status |-> 403, videos |-> vs, assignments |-> assignments, added |-> 0, removed |-> 0]
    ELSE LET a2 == {a \in assignments : a.videoId # videoId}
                      \cup {AssignmentRow(videoId, id, user, FALSE, Null) : id \in Range(labelIds)}
             v1 == IF keepPermanently = Null THEN vs
                   ELSE [vs EXCEPT ![videoId].keepPermanently = Get(keepPermanently)]
         IN [status |-> 200, videos |-> updateVideoExpiration(v1, labels, a2, videoId),
             assignments |-> a2, added |-> Len(labelIds), removed |-> 0]

\* The handler from the ownership check to the response: the tables it
\* leaves and the status it answers.  fail names the statement the
\* datastore rejects, if any.
POST(vs, labels, assignments, user, videoId, labelIds, keepPermanently, fail) ==
    LET unchanged(status) ==
            [status |-> status, videos |-> vs, assignments |-> assignments,
             added |-> 0, removed |-> 0]
    IN IF videoId \notin DOMAIN vs THEN unchanged(404)
       ELSE IF vs[videoId].ownerId # user THEN unchanged(403)
       ELSE
        LET current == {a \in assignments : a.videoId = videoId}
            currentLabelIds == {a.labelId : a \in current}
            labelsToAdd == SelectSeq(labelIds, LAMBDA id : id \notin currentLabelIds)
            labelsToRemove == {id \in currentLabelIds : id \notin Range(labelIds)}
            a1 == {a \in assignments :
                      ~(a.videoId = videoId /\ a.labelId \in labelsToRemove)}
            values == [i \in 1..Len(labelsToAdd) |->
                          AssignmentRow(videoId, labelsToAdd[i], user, FALSE, Null)]
            a2 == a1 \cup Range(values)
            v1 == IF keepPermanently = Null THEN vs
                  ELSE [vs EXCEPT ![videoId].keepPermanently = Get(keepPermanently)]
            failed(as, videosNow) ==
                [status |-> 500, videos |-> videosNow, assignments |-> as,
                 added |-> 0, removed |-> 0]
        IN IF labelsToRemove # {} /\ fail = "delete" THEN failed(assignments, vs)
           ELSE IF Len(labelsToAdd) > 0 /\ (fail = "insert" \/ ViolatesUnique(a1, values))
                THEN failed(a1, vs)
           ELSE IF keepPermanently # Null /\ fail = "keepPermanently" THEN failed(a2, vs)
           ELSE IF fail = "expiration" THEN failed(a2, v1)
           ELSE [status |-> 200,
                 videos |-> updateVideoExpiration(v1, labels, a2, videoId),
                 assignments |-> a2,
                 added |-> Len(labelsToAdd), removed |-> Cardinality(labelsToRemove)]

----------------------------------------------------------------------------
(* Requests, one at a time *)

NoRequest == [op |-> "none"]
NoRerun == [op |-> "none"]
CleanupIdle == [pc |-> "idle"]
BatchIdle == [pc |-> "idle"]
NoProcs == [p \in {} |-> 0]

\* No request is being served and no job is under way.
Quiet ==
    /\ req = NoRequest
    /\ cleanup = CleanupIdle
    /\ rerun = NoRerun
    /\ batch = BatchIdle
    /\ procs = NoProcs

\* The scheduler may call the cron route: no other job is under way; label
\* requests of users may be in the middle of their statements.
CronMayStart ==
    /\ req = NoRequest
    /\ cleanup = CleanupIdle
    /\ rerun = NoRerun
    /\ batch = BatchIdle
    /\ \A q \in DOMAIN procs : procs[q].op = "POST videoLabels"

Init ==
    /\ videos = InitialVideos
    /\ videoLabels = SeededLabels
    /\ videoLabelAssignments = {}
    /\ comments = [v \in VideoIds |-> MaxRows]
    /\ spaceVideos = [v \in VideoIds |-> MaxRows]
    /\ sharedVideos = [v \in VideoIds |-> MaxRows]
    /\ cleanup = CleanupIdle
    /\ req = NoRequest
    /\ rerun = NoRerun
    /\ batch = BatchIdle
    /\ procs = NoProcs

SeqsUpTo(S, n) == UNION {[1..k -> S] : k \in 0..n}

KeepParams == {Null, Some(TRUE), Some(FALSE)}
SuggestedNames == {"TROUBLESHOOTING", "TECH", "WEBINAR"}
Confidences == {7499, 7500}
Suggestions == [labelName : SuggestedNames, confidence : Confidences]

\* A user posts labelIds and keepPermanently for a video.
PostVideoLabels(user, videoId, labelIds, keepPermanently, fail) ==
    /\ Quiet
    /\ LET r == POST(videos, videoLabels, videoLabelAssignments, user, videoId,
                     labelIds, keepPermanently, fail)
       IN /\ videos' = r.videos
          /\ videoLabelAssignments' = r.assignments
          /\ req' = [op |-> "POST", videoId |-> videoId, status |-> r.status,
                     added |-> r.added, removed |-> r.removed]
    /\ UNCHANGED <<videoLabels, comments, spaceVideos, sharedVideos, cleanup, rerun, jobs>>

\* A classify request (POST /api/videos/[videoId]/classify, or the admin
\* batch) has selected the video and obtained a classification: it calls
\* autoAssignLabels with the video's organization and owner.
AutoAssign(videoId, suggestions, failAt) ==
    /\ Quiet
    /\ videoId \in DOMAIN videos
    /\ LET r == autoAssignLabels(videos, videoLabels, videoLabelAssignments, videoId,
                                 videos[videoId].orgId, suggestions,
                                 videos[videoId].ownerId, failAt)
       IN /\ videos' = r.videos
          /\ videoLabelAssignments' = r.assignments
          /\ req' = [op |-> "autoAssignLabels", videoId |-> videoId, threw |-> r.threw,
                     assigned |-> r.assigned, skipped |-> r.skipped]
    /\ UNCHANGED <<videoLabels, comments, spaceVideos, sharedVideos, cleanup, rerun, jobs>>

\* The same call, its arguments and the tables it found kept with the answer.
AutoAssignTraced(videoId, suggestions) ==
    /\ Quiet
    /\ videoId \in DOMAIN videos
    /\ LET r == autoAssignLabels(videos, videoLabels, videoLabelAssignments, videoId,
                                 videos[videoId].orgId, suggestions,
                                 videos[videoId].ownerId, 0)
       IN /\ videos' = r.videos
          /\ videoLabelAssignments' = r.assignments
          /\ req' = [op |-> "autoAssign", videoId |-> videoId, threw |-> r.threw,
                     assigned |-> r.assigned, skipped |-> r.skipped,
                     suggestions |-> suggestions,
                     before |-> videoLabelAssignments,
                     videoBefore |-> videos[videoId]]
    /\ UNCHANGED <<videoLabels, comments, spaceVideos, sharedVideos, cleanup, rerun, jobs>>

\* The same call, by a caller that will repeat it with the same arguments.
AutoAssignFirst(videoId, suggestions) ==
    /\ Quiet
    /\ videoId \in DOMAIN videos
    /\ LET r == autoAssignLabels(videos, videoLabels, videoLabelAssignments, videoId,
                                 videos[videoId].orgId, suggestions,
                                 videos[videoId].ownerId, 0)
       IN /\ videos' = r.videos
          /\ videoLabelAssignments' = r.assignments
          /\ req' = [op |-> "autoAssignLabels", videoId |-> videoId, threw |-> r.threw,
                     assigned |-> r.assigned, skipped |-> r.skipped]
          /\ rerun' = [op |-> "first", videoId |-> videoId, suggestions |-> suggestions,
                       assigned |-> r.assigned, assignments |-> r.assignments]
    /\ UNCHANGED <<videoLabels, comments, spaceVideos, sharedVideos, cleanup, jobs>>

\* The second call in succession: same video, organization and result.
AutoAssignAgain ==
    /\ rerun.op = "first"
    /\ LET r == autoAssignLabels(videos, videoLabels, videoLabelAssignments, rerun.videoId,
                                 videos[rerun.videoId].orgId, rerun.suggestions,
                                 videos[rerun.videoId].ownerId, 0)
       IN /\ videos' = r.videos
          /\ videoLabelAssignments' = r.assignments
          /\ req' = [op |-> "autoAssignLabels", videoId |-> rerun.videoId,
                     threw |-> r.threw, assigned |-> r.assigned, skipped |-> r.skipped]
    /\ rerun' = [rerun EXCEPT !.op = "second"]
    /\ UNCHANGED <<videoLabels, comments, spaceVideos, sharedVideos, cleanup, jobs>>

\* The repeating caller has its second answer.
RerunReturn ==
    /\ rerun.op = "second"
    /\ rerun' = NoRerun
    /\ req' = NoRequest
    /\ UNCHANGED <<tables, cleanup, jobs>>

\* The response leaves the server.
Return ==
    /\ req # NoRequest
    /\ rerun = NoRerun
    /\ req' = NoRequest
    /\ UNCHANGED <<tables, cleanup, rerun, jobs>>

----------------------------------------------------------------------------
(* Cleanup job: GET /api/cron/cleanup-expired-videos *)

\* Variant: the select does not look at keepPermanently.
ExpiredVideos_IgnoresKeep(vs, now) ==
    {v \in DOMAIN vs : ~IsNull(vs[v].expiresAt) /\ Get(vs[v].expiresAt) <= now}

\* The select of cleanupExpiredVideos: ids of the videos past their
\* expiration and not kept permanently.
ExpiredVideos(vs, now) ==
    {v \in DOMAIN vs :
        /\ ~IsNull(vs[v].expiresAt)
        /\ Get(vs[v].expiresAt) <= now
        /\ vs[v].keepPermanently = FALSE}

\* The select has no ORDER BY: the rows come in any order.
Orderings(S) == {s \in [1..Cardinality(S) -> S] : Range(s) = S}

Candidate(vs, v) == [id |-> v, expiresAt |-> Get(vs[v].expiresAt)]

ClockReadings == {k * DaysPerTick : k \in 1..MaxTicks}

\* What the asset store answers to listObjects and deleteObjects.
AssetStoreReplies ==
    [list : {"ok", "error"}, contents : 0..MaxObjects, delete : {"ok", "error"}]

\* Variant: a failure of the asset store is not caught.
deleteVideoFiles_Throws(videoId, reply) ==
    IF reply.list = "error" \/ (reply.contents > 0 /\ reply.delete = "error")
    THEN [videoId |-> videoId, threw |-> TRUE, caught |-> FALSE,
          listed |-> IF reply.list = "error" THEN 0 ELSE reply.contents,
          deleteRequests |-> IF reply.list = "error" THEN 0 ELSE 1]
    ELSE [videoId |-> videoId, threw |-> FALSE, caught |-> FALSE,
          listed |-> reply.contents,
          deleteRequests |-> IF reply.contents > 0 THEN 1 ELSE 0]

\* deleteVideoFiles: lists the prefix, bulk-deletes what is listed; every
\* failure is caught and logged, the call returns normally.
deleteVideoFiles(videoId, reply) ==
    IF reply.list = "error"
    THEN [videoId |-> videoId, threw |-> FALSE, caught |-> TRUE, listed |-> 0,
          deleteRequests |-> 0]
    ELSE IF reply.contents > 0
    THEN [videoId |-> videoId, threw |-> FALSE, caught |-> reply.delete = "error",
          listed |-> reply.contents, deleteRequests |-> 1]
    ELSE [videoId |-> videoId, threw |-> FALSE, caught |-> FALSE, listed |-> 0,
          deleteRequests |-> 0]

NoFiles == [videoId |-> "none"]

\* The loop moves to the next candidate, or the function returns.
NextCandidate(c) ==
    IF c.i + 1 > Len(c.expiredVideos)
    THEN [c EXCEPT !.pc = "done", !.i = c.i + 1]
    ELSE [c EXCEPT !.pc = "files", !.i = c.i + 1]

\* try-block completed: result.deleted++ and a details entry.
RecordDeleted(c) ==
    NextCandidate([c EXCEPT
        !.result.deleted = @ + 1,
        !.result.details = Append(@, [videoId |-> c.expiredVideos[c.i].id,
                                       expiresAt |-> c.expiredVideos[c.i].expiresAt,
                                       status |-> "deleted"])])

\* Variant: the first failure ends the batch.
RecordError_Aborts(c, message) ==
    [c EXCEPT
        !.pc = "done",
        !.result.errors = @ + 1,
        !.result.details = Append(@, [videoId |-> c.expiredVideos[c.i].id,
                                       expiresAt |-> c.expiredVideos[c.i].expiresAt,
                                       status |-> "error", error |-> message])]

\* catch-block: result.errors++ and a details entry with the message.
RecordError(c, message) ==
    NextCandidate([c EXCEPT
        !.result.errors = @ + 1,
        !.result.details = Append(@, [videoId |-> c.expiredVideos[c.i].id,
                                       expiresAt |-> c.expiredVideos[c.i].expiresAt,
                                       status |-> "error", error |-> message])])

Current == cleanup.expiredVideos[cleanup.i].id

Snapshot ==
    [videos |-> videos, assignments |-> videoLabelAssignments, comments |-> comments,
     spaceVideos |-> spaceVideos, sharedVideos |-> sharedVideos]

\* The cron request arrives: the clock is read and the candidates selected.
CleanupStart(now, order) ==
    /\ CronMayStart
    /\ order \in Orderings(ExpiredVideos(videos, now))
    /\ cleanup' = [pc |-> IF Len(order) = 0 THEN "done" ELSE "files",
                   now |-> now,
                   expiredVideos |-> [k \in 1..Len(order) |-> Candidate(videos, order[k])],
                   i |-> 1,
                   result |-> [deleted |-> 0, errors |-> 0, details |-> <<>>],
                   files |-> NoFiles,
                   pre |-> Snapshot]
    /\ UNCHANGED <<tables, req, rerun, jobs>>

\* await deleteVideoFiles(...)
CleanupFiles(reply) ==
    /\ cleanup.pc = "files"
    /\ LET f == deleteVideoFiles(Current, reply)
       IN cleanup' = IF f.threw THEN RecordError([cleanup EXCEPT !.files = f], "asset store")
                     ELSE [cleanup EXCEPT !.files = f, !.pc = "comments"]
    /\ UNCHANGED <<tables, req, rerun, jobs>>

\* 1. delete from comments where videoId
CleanupComments(ok) ==
    /\ cleanup.pc = "comments"
    /\ IF ok
       THEN /\ comments' = [comments EXCEPT ![Current] = 0]
            /\ cleanup' = [cleanup EXCEPT !.pc = "labels"]
       ELSE /\ cleanup' = RecordError(cleanup, "datastore")
            /\ UNCHANGED comments
    /\ UNCHANGED <<videos, videoLabels, videoLabelAssignments, spaceVideos,
                   sharedVideos, req, rerun, jobs>>

\* 2. delete from videoLabelAssignments where videoId
CleanupLabelAssignments(ok) ==
    /\ cleanup.pc = "labels"
    /\ IF ok
       THEN /\ videoLabelAssignments' =
                  {a \in videoLabelAssignments : a.videoId # Current}
            /\ cleanup' = [cleanup EXCEPT !.pc = "spaces"]
       ELSE /\ cleanup' = RecordError(cleanup, "datastore")
            /\ UNCHANGED videoLabelAssignments
    /\ UNCHANGED <<videos, videoLabels, comments, spaceVideos, sharedVideos, req, rerun, jobs>>

\* Variant: the space shares are left for after the video row.
CleanupSpaceVideos_Skipped(ok) ==
    /\ cleanup.pc = "spaces"
    /\ cleanup' = IF ok THEN [cleanup EXCEPT !.pc = "shared"]
                  ELSE RecordError(cleanup, "datastore")
    /\ UNCHANGED <<tables, req, rerun, jobs>>

\* 3. delete from spaceVideos where videoId
CleanupSpaceVideos(ok) ==
    /\ cleanup.pc = "spaces"
    /\ IF ok
       THEN /\ spaceVideos' = [spaceVideos EXCEPT ![Current] = 0]
            /\ cleanup' = [cleanup EXCEPT !.pc = "shared"]
       ELSE /\ cleanup' = RecordError(cleanup, "datastore")
            /\ UNCHANGED spaceVideos
    /\ UNCHANGED <<videos, videoLabels, videoLabelAssignments, comments,
                   sharedVideos, req, rerun, jobs>>

\* 4. delete from sharedVideos where videoId
CleanupSharedVideos(ok) ==
    /\ cleanup.pc = "shared"
    /\ IF ok
       THEN /\ sharedVideos' = [sharedVideos EXCEPT ![Current] = 0]
            /\ cleanup' = [cleanup EXCEPT !.pc = "video"]
       ELSE /\ cleanup' = RecordError(cleanup, "datastore")
            /\ UNCHANGED sharedVideos
    /\ UNCHANGED <<videos, videoLabels, videoLabelAssignments, comments,
                   spaceVideos, req, rerun, jobs>>

\* Variant: the last delete matches no row, the entry is written all the same.
CleanupVideo_KeepsRow(ok) ==
    /\ cleanup.pc = "video"
    /\ cleanup' = IF ok THEN RecordDeleted(cleanup) ELSE RecordError(cleanup, "datastore")
    /\ UNCHANGED <<tables, req, rerun, jobs>>

\* 5. delete from videos where id, then the details entry
CleanupVideo(ok) ==
    /\ cleanup.pc = "video"
    /\ IF ok
       THEN /\ videos' = [v \in DOMAIN videos \ {Current} |-> videos[v]]
            /\ cleanup' = RecordDeleted(cleanup)
       ELSE /\ cleanup' = RecordError(cleanup, "datastore")
            /\ UNCHANGED videos
    /\ UNCHANGED <<videoLabels, videoLabelAssignments, comments, spaceVideos,
                   sharedVideos, req, rerun, jobs>>

\* return result: the report leaves as the response.
CleanupReturn ==
    /\ cleanup.pc = "done"
    /\ cleanup' = CleanupIdle
    /\ UNCHANGED <<tables, req, rerun, jobs>>

\* The platform ends the request between two statements (maxDuration).
CleanupInterrupt ==
    /\ cleanup.pc \in {"files", "comments", "labels", "spaces", "shared", "video"}
    /\ cleanup' = CleanupIdle
    /\ UNCHANGED <<tables, req, rerun, jobs>>

----------------------------------------------------------------------------
(* POST /api/videos/[videoId]/classify *)

NotCalled == FailedClassification("not called")

\* What a classification request meets outside the datastore's tables: the
\* transcription object (Null: none or unreadable, else the length of its
\* text), the oracle key and reply, the clock, and the statements the
\* datastore rejects (seedFailAt, writeOk, assignFailAt).
Environment(transcription, configured, reply, writeOk, now, seedFailAt, assignFailAt) ==
    [transcription |-> transcription, configured |-> configured, reply |-> reply,
     writeOk |-> writeOk, now |-> now, seedFailAt |-> seedFailAt,
     assignFailAt |-> assignFailAt]

\* The answer of the handler and what it did on the way; classifier: whether
\* classifyVideoLabels was not called, returned, or raised.
Outcome(status, vs, labels, assignments, classifier, oracleCalled, classification, assignCalled, assignReturned, assigned, skipped) ==
    [status |-> status, videos |-> vs, labels |-> labels, assignments |-> assignments,
     classifier |-> classifier, oracleCalled |-> oracleCalled,
     classification |-> classification, assignCalled |-> assignCalled,
     assignReturned |-> assignReturned, assigned |-> assigned, skipped |-> skipped]

\* Variant: the handler does not look at classification.success.
classifyRoute_IgnoresFailure(vs, labels, assignments, user, videoId, env) ==
    IF videoId \notin DOMAIN vs
    THEN Outcome(404, vs, labels, assignments, "not called", FALSE, NotCalled, FALSE, FALSE, <<>>, <<>>)
    ELSE IF vs[videoId].ownerId # user
    THEN Outcome(403, vs, labels, assignments, "not called", FALSE, NotCalled, FALSE, FALSE, <<>>, <<>>)
    ELSE IF vs[videoId].transcriptionStatus # Some("COMPLETE")
    THEN Outcome(400, vs, labels, assignments, "not called", FALSE, NotCalled, FALSE, FALSE, <<>>, <<>>)
    ELSE
      LET video == vs[videoId]
          seeded == seedSystemLabels(labels, video.orgId, env.seedFailAt)
          c == classifyVideoLabels(vs, videoId, env)
          a == autoAssignLabels(c.videos, seeded.labels, assignments, videoId, video.orgId,
                                c.result.labels, user, env.assignFailAt)
      IN IF seeded.threw
         THEN Outcome(500, vs, seeded.labels, assignments, "not called", FALSE, NotCalled,
                      FALSE, FALSE, <<>>, <<>>)
         ELSE IF env.transcription = Null \/ env.transcription = Some(0)
         THEN Outcome(400, vs, seeded.labels, assignments, "not called", FALSE, NotCalled,
                      FALSE, FALSE, <<>>, <<>>)
         ELSE IF c.threw
         THEN Outcome(500, c.videos, seeded.labels, assignments,
                      IF c.threw THEN "raised" ELSE "returned", c.oracleCalled,
                      c.result, FALSE, FALSE, <<>>, <<>>)
         ELSE IF a.threw
         THEN Outcome(500, a.videos, seeded.labels, a.assignments, "returned", c.oracleCalled,
                      c.result, TRUE, FALSE, <<>>, <<>>)
         ELSE Outcome(200, a.videos, seeded.labels, a.assignments, "returned", c.oracleCalled,
                      c.result, TRUE, TRUE, a.assigned, a.skipped)

\* The handler from the select of the video to the response.
classifyRoute(vs, labels, assignments, user, videoId, env) ==
    IF videoId \notin DOMAIN vs
    THEN Outcome(404, vs, labels, assignments, "not called", FALSE, NotCalled, FALSE, FALSE, <<>>, <<>>)
    ELSE IF vs[videoId].ownerId # user
    THEN Outcome(403, vs, labels, assignments, "not called", FALSE, NotCalled, FALSE, FALSE, <<>>, <<>>)
    ELSE IF vs[videoId].transcriptionStatus # Some("COMPLETE")
    THEN Outcome(400, vs, labels, assignments, "not called", FALSE, NotCalled, FALSE, FALSE, <<>>, <<>>)
    ELSE
      LET video == vs[videoId]
          seeded == seedSystemLabels(labels, video.orgId, env.seedFailAt)
          c == classifyVideoLabels(vs, videoId, env)
          a == autoAssignLabels(c.videos, seeded.labels, assignments, videoId, video.orgId,
                                c.result.labels, user, env.assignFailAt)
      IN IF seeded.threw
         THEN Outcome(500, vs, seeded.labels, assignments, "not called", FALSE, NotCalled,
                      FALSE, FALSE, <<>>, <<>>)
         ELSE IF env.transcription = Null \/ env.transcription = Some(0)
         THEN Outcome(400, vs, seeded.labels, assignments, "not called", FALSE, NotCalled,
                      FALSE, FALSE, <<>>, <<>>)
         ELSE IF c.threw \/ ~c.result.success
         THEN Outcome(500, c.videos, seeded.labels, assignments,
                      IF c.threw THEN "raised" ELSE "returned", c.oracleCalled,
                      c.result, FALSE, FALSE, <<>>, <<>>)
         ELSE IF a.threw
         THEN Outcome(500, a.videos, seeded.labels, a.assignments, "returned", c.oracleCalled,
                      c.result, TRUE, FALSE, <<>>, <<>>)
         ELSE Outcome(200, a.videos, seeded.labels, a.assignments, "returned", c.oracleCalled,
                      c.result, TRUE, TRUE, a.assigned, a.skipped)

\* What the handlers leave of a call for the properties: the outcome
\* without the tables, with the call's environment and the row it found.
Trace(op, videoId, out, env, videoBefore) ==
    [op |-> op, videoId |-> videoId, status |-> out.status, env |-> env,
     videoBefore |-> videoBefore,
     classifier |-> out.classifier, oracleCalled |-> out.oracleCalled,
     classification |-> out.classification, assignCalled |-> out.assignCalled,
     assignReturned |-> out.assignReturned, assigned |-> out.assigned,
     skipped |-> out.skipped]

\* A user asks for the classification of a video.
PostClassify(user, videoId, env) ==
    /\ Quiet
    /\ LET out == classifyRoute(videos, videoLabels, videoLabelAssignments, user,
                                videoId, env)
       IN /\ videos' = out.videos
          /\ videoLabels' = out.labels
          /\ videoLabelAssignments' = out.assignments
          /\ req' = Trace("classify", videoId, out, env,
                          IF videoId \in DOMAIN videos THEN Some(videos[videoId]) ELSE Null)
    /\ UNCHANGED <<comments, spaceVideos, sharedVideos, cleanup, rerun, jobs>>

----------------------------------------------------------------------------
(* Admin batch: POST /api/admin/classify-all-videos *)

MinTranscriptionLength == 50

\* Variant: the select takes every transcribed video, classified or not.
Unclassified_AnyComplete(vs) ==
    {v \in DOMAIN vs : vs[v].transcriptionStatus = Some("COMPLETE")}

\* The select of classifyAllVideos: not classified yet, transcription stored.
Unclassified(vs) ==
    {v \in DOMAIN vs :
        vs[v].aiClassifiedAt = Null /\ vs[v].transcriptionStatus = Some("COMPLETE")}

\* if (limit) query.limit(limit): the first rows of the select, all of
\* them when the parameter is absent or 0.
Limited(order, limit) ==
    IF limit = Null \/ limit = Some(0) \/ Get(limit) >= Len(order) THEN order
    ELSE SubSeq(order, 1, Get(limit))

\* Variant: a dry run is processed like any other run.
classifyOne_IgnoresDryRun(vs, labels, assignments, videoId, video, dryRun, env) ==
    IF env.transcription = Null \/ Get(env.transcription) < MinTranscriptionLength
    THEN Outcome("skipped", vs, labels, assignments, "not called", FALSE, NotCalled,
                 FALSE, FALSE, <<>>, <<>>)
    ELSE
      LET seeded == seedSystemLabels(labels, video.orgId, env.seedFailAt)
          c == classifyVideoLabels(vs, videoId, env)
          a == autoAssignLabels(c.videos, seeded.labels, assignments, videoId, video.orgId,
                                c.result.labels, video.ownerId, env.assignFailAt)
      IN IF seeded.threw
         THEN Outcome("error", vs, seeded.labels, assignments, "not called", FALSE, NotCalled,
                      FALSE, FALSE, <<>>, <<>>)
         ELSE IF c.threw \/ ~c.result.success
         THEN Outcome("error", c.videos, seeded.labels, assignments,
                      IF c.threw THEN "raised" ELSE "returned", c.oracleCalled,
                      c.result, FALSE, FALSE, <<>>, <<>>)
         ELSE IF a.threw
         THEN Outcome("error", a.videos, seeded.labels, a.assignments, "returned", c.oracleCalled,
                      c.result, TRUE, FALSE, <<>>, <<>>)
         ELSE Outcome("classified", a.videos, seeded.labels, a.assignments, "returned",
                      c.oracleCalled, c.result, TRUE, TRUE, a.assigned, a.skipped)

\* The body of the loop for one selected row.
classifyOne(vs, labels, assignments, videoId, video, dryRun, env) ==
    IF dryRun
    THEN Outcome("classified", vs, labels, assignments, "not called", FALSE, NotCalled,
                 FALSE, FALSE, <<>>, <<>>)
    ELSE IF env.transcription = Null \/ Get(env.transcription) < MinTranscriptionLength
    THEN Outcome("skipped", vs, labels, assignments, "not called", FALSE, NotCalled,
                 FALSE, FALSE, <<>>, <<>>)
    ELSE
      LET seeded == seedSystemLabels(labels, video.orgId, env.seedFailAt)
          c == classifyVideoLabels(vs, videoId, env)
          a == autoAssignLabels(c.videos, seeded.labels, assignments, videoId, video.orgId,
                                c.result.labels, video.ownerId, env.assignFailAt)
      IN IF seeded.threw
         THEN Outcome("error", vs, seeded.labels, assignments, "not called", FALSE, NotCalled,
                      FALSE, FALSE, <<>>, <<>>)
         ELSE IF c.threw \/ ~c.result.success
         THEN Outcome("error", c.videos, seeded.labels, assignments,
                      IF c.threw THEN "raised" ELSE "returned", c.oracleCalled,
                      c.result, FALSE, FALSE, <<>>, <<>>)
         ELSE IF a.threw
         THEN Outcome("error", a.videos, seeded.labels, a.assignments, "returned", c.oracleCalled,
                      c.result, TRUE, FALSE, <<>>, <<>>)
         ELSE Outcome("classified", a.videos, seeded.labels, a.assignments, "returned",
                      c.oracleCalled, c.result, TRUE, TRUE, a.assigned, a.skipped)

\* The admin request arrives: the videos to classify are selected.
BatchStart(dryRun, limit, order) ==
    /\ Quiet
    /\ order \in Orderings(Unclassified(videos))
    /\ LET selected == Limited(order, limit)
       IN batch' = [pc |-> IF Len(selected) = 0 THEN "done" ELSE "video",
                    dryRun |-> dryRun,
                    unclassifiedVideos |-> [k \in 1..Len(selected) |->
                                               [id |-> selected[k], video |-> videos[selected[k]]]],
                    i |-> 1,
                    result |-> [processed |-> 0, classified |-> 0, skipped |-> 0,
                                errors |-> 0, details |-> <<>>],
                    pre |-> [videos |-> videos, labels |-> videoLabels,
                             assignments |-> videoLabelAssignments]]
    /\ UNCHANGED <<tables, cleanup, req, rerun, procs>>

\* One turn of the loop: the row is processed and its entry written.
BatchVideo(env) ==
    /\ batch.pc = "video"
    /\ LET row == batch.unclassifiedVideos[batch.i]
           out == classifyOne(videos, videoLabels, videoLabelAssignments, row.id,
                              row.video, batch.dryRun, env)
           entry == Trace("classifyAllVideos", row.id, out, env,
                          IF row.id \in DOMAIN videos THEN Some(videos[row.id]) ELSE Null)
       IN /\ videos' = out.videos
          /\ videoLabels' = out.labels
          /\ videoLabelAssignments' = out.assignments
          /\ batch' = [batch EXCEPT
                 !.pc = IF batch.i + 1 > Len(batch.unclassifiedVideos) THEN "done"
                        ELSE "video",
                 !.i = batch.i + 1,
                 !.result.processed = @ + 1,
                 !.result.classified = IF out.status = "classified" THEN @ + 1 ELSE @,
                 !.result.skipped = IF out.status = "skipped" THEN @ + 1 ELSE @,
                 !.result.errors = IF out.status = "error" THEN @ + 1 ELSE @,
                 !.result.details = Append(@, entry)]
    /\ UNCHANGED <<comments, spaceVideos, sharedVideos, cleanup, req, rerun, procs>>

\* return result
BatchReturn ==
    /\ batch.pc = "done"
    /\ batch' = BatchIdle
    /\ UNCHANGED <<tables, cleanup, req, rerun, procs>>

----------------------------------------------------------------------------
(* Labels API: GET and POST /api/labels *)

\* A name in a request body is text: a sequence of characters ("" and an
\* absent field are the empty sequence).
Upper ==
    {"A", "B", "C", "D", "E", "F", "G", "H", "I", "J", "K", "L", "M",
     "N", "O", "P", "Q", "R", "S", "T", "U", "V", "W", "X", "Y", "Z"}

Digit == {"0", "1", "2", "3", "4", "5", "6", "7", "8", "9"}

RECURSIVE Text(_)
\* The string the characters spell.
Text(chars) == IF chars = <<>> THEN "" ELSE Head(chars) \o Text(Tail(chars))

\* Variant: only the first character is tested.
ValidName_FirstOnly(name) ==
    /\ Len(name) > 0
    /\ name[1] \in Upper

\* /^[A-Z][A-Z0-9_]*$/.test(name)
ValidName(name) ==
    /\ Len(name) > 0
    /\ name[1] \in Upper
    /\ \A i \in 2..Len(name) : name[i] \in Upper \cup Digit \cup {"_"}

\* getCurrentUser(): no user, or a user and their active organization.
Session(activeOrganizationId) == Some([activeOrganizationId |-> activeOrganizationId])

\* The JSON body of a POST: name, displayName ("" when absent), category
\* and retentionDays (Null when absent).
Body(name, displayName, category, retentionDays) ==
    [name |-> name, displayName |-> displayName, category |-> category,
     retentionDays |-> retentionDays]

\* The row the handler inserts: category || "content_type",
\* retentionDays || null, isSystem false, isActive true.
CustomLabel(organizationId, body) ==
    [id |-> LabelId(organizationId, Text(body.name)),
     organizationId |-> organizationId,
     name |-> Text(body.name), displayName |-> body.displayName,
     retentionDays |-> IF body.retentionDays = Some(0) THEN Null ELSE body.retentionDays,
     isSystem |-> FALSE, isActive |-> TRUE,
     category |-> IF body.category = Null THEN "content_type" ELSE Get(body.category)]

\* The answer of a handler of the labels API: status, error message, the
\* catalog it leaves, and the row it created or the rows it selected.
Answer(status, error, labels, created, rows) ==
    [status |-> status, error |-> error, labels |-> labels, created |-> created,
     rows |-> rows]

\* POST /api/labels up to the response; insertOk: whether the datastore
\* accepts the insert for its own part.  The promotion evaluation is started
\* exactly when a row was created.
LabelsPOST(labels, session, body, insertOk) ==
    IF session = Null THEN Answer(401, "Unauthorized", labels, Null, {})
    ELSE IF Get(session).activeOrganizationId = Null
    THEN Answer(400, "No active organization", labels, Null, {})
    ELSE IF body.name = <<>> \/ body.displayName = ""
    THEN Answer(400, "Name and displayName are required", labels, Null, {})
    ELSE IF ~ValidName(body.name)
    THEN Answer(400, "Name must be uppercase letters, numbers, and underscores only",
                labels, Null, {})
    ELSE
      LET orgId == Get(Get(session).activeOrganizationId)
          row == CustomLabel(orgId, body)
      IN IF \E l \in labels : l.organizationId = orgId /\ l.name = row.name
         THEN Answer(400, "A label with this name already exists", labels, Null, {})
         ELSE IF ~insertOk \/ ViolatesOrgName(labels, row)
         THEN Answer(500, "Failed to create label", labels, Null, {})
         ELSE Answer(200, "none", labels \cup {row}, Some(row), {})

\* The strings of the model in the order of the tables' collation
\* (utf8mb4_unicode_ci: letter case does not count), equal ones together.
Collation ==
    << {"Announcement"}, {"Client Call"}, {"Compliance"}, {"content_type"},
       {"Demo", "demo"}, {"department"}, {"Finance"}, {"HR"}, {"Marketing"},
       {"Meeting Recording"}, {"Onboarding"}, {"Process"}, {"Product"},
       {"Quick Answer"}, {"Sales"}, {"Support"}, {"Tech"}, {"Training"},
       {"Troubleshooting"}, {"Tutorial"}, {"Webinar", "WEBINAR"}, {"X"} >>

Weight(s) == CHOOSE k \in 1..Len(Collation) : s \in Collation[k]

\* ORDER BY category, display_name: row a does not come after row b.
Precedes(a, b) ==
    \/ Weight(a.category) < Weight(b.category)
    \/ Weight(a.category) = Weight(b.category) /\ Weight(a.displayName) <= Weight(b.displayName)

RECURSIVE Listings(_)
\* The sequences the select may return for the rows: sorted, the rows the
\* ORDER BY does not tell apart in any order.
Listings(rows) ==
    IF rows = {} THEN {<<>>}
    ELSE LET first == {r \in rows : \A q \in rows : Precedes(r, q)}
         IN {g \o rest : g \in Orderings(first), rest \in Listings(rows \ first)}

\* Variant: the select does not test is_active.
LabelsGET_AllLabels(labels, session, seedFailAt) ==
    IF session = Null THEN Answer(401, "Unauthorized", labels, Null, {})
    ELSE IF Get(session).activeOrganizationId = Null
    THEN Answer(400, "No active organization", labels, Null, {})
    ELSE
      LET orgId == Get(Get(session).activeOrganizationId)
          seeded == seedSystemLabels(labels, orgId, seedFailAt)
      IN IF seeded.threw
         THEN Answer(500, "Failed to fetch labels", seeded.labels, Null, {})
         ELSE Answer(200, "none", seeded.labels, Null,
                     {l \in seeded.labels : l.organizationId = orgId})

\* GET /api/labels up to the select: the organization is seeded, then its
\* active labels are selected.
LabelsGET(labels, session, seedFailAt) ==
    IF session = Null THEN Answer(401, "Unauthorized", labels, Null, {})
    ELSE IF Get(session).activeOrganizationId = Null
    THEN Answer(400, "No active organization", labels, Null, {})
    ELSE
      LET orgId == Get(Get(session).activeOrganizationId)
          seeded == seedSystemLabels(labels, orgId, seedFailAt)
      IN IF seeded.threw
         THEN Answer(500, "Failed to fetch labels", seeded.labels, Null, {})
         ELSE Answer(200, "none", seeded.labels, Null,
                     {l \in seeded.labels : l.organizationId = orgId /\ l.isActive})

----------------------------------------------------------------------------
(* Promotion of a custom label to the system vocabulary *)

\* The object the evaluation oracle answers, with the fields the code reads
\* (should_promote is Null when it is absent or not a boolean).
EvaluationObject(should_promote, english_name, english_display_name, suggested_category) ==
    [t |-> "object", should_promote |-> should_promote, english_name |-> english_name,
     english_display_name |-> english_display_name,
     suggested_category |-> suggested_category]

\* The conservative result of every failure.
NoPromotion(reason, labelCategory) ==
    [shouldPromote |-> FALSE, reason |-> reason, englishName |-> Null,
     englishDisplayName |-> Null, suggestedCategory |-> labelCategory, threw |-> FALSE]

\* Variant: the response is parsed outside the try block.
evaluateLabelForPromotion_ParseUncaught(configured, reply, labelCategory) ==
    IF ~configured THEN NoPromotion("OpenAI API not configured", labelCategory)
    ELSE IF reply.kind = "network" THEN NoPromotion("Evaluation failed", labelCategory)
    ELSE IF reply.kind = "status" THEN NoPromotion("API error", labelCategory)
    ELSE IF reply.content = <<>> THEN NoPromotion("Empty response", labelCategory)
    ELSE
      LET cleaned == SelectSeq(reply.content, LAMBDA tok : tok.t # "fence")
      IN IF Len(cleaned) # 1 \/ cleaned[1].t # "object"
         THEN [NoPromotion("Evaluation failed", labelCategory) EXCEPT !.threw = TRUE]
         ELSE LET parsed == cleaned[1]
              IN [shouldPromote |-> parsed.should_promote = Some(TRUE),
                  reason |-> "oracle",
                  englishName |-> parsed.english_name,
                  englishDisplayName |-> parsed.english_display_name,
                  suggestedCategory |-> IF parsed.suggested_category = Null
                                        THEN labelCategory
                                        ELSE Get(parsed.suggested_category),
                  threw |-> FALSE]

\* evaluateLabelForPromotion: the evaluation of a label of the given
\* category.  The fences are removed from the content and the rest parsed;
\* every failure after the key test is caught.
evaluateLabelForPromotion(configured, reply, labelCategory) ==
    IF ~configured THEN NoPromotion("OpenAI API not configured", labelCategory)
    ELSE IF reply.kind = "network" THEN NoPromotion("Evaluation failed", labelCategory)
    ELSE IF reply.kind = "status" THEN NoPromotion("API error", labelCategory)
    ELSE IF reply.content = <<>> THEN NoPromotion("Empty response", labelCategory)
    ELSE
      LET cleaned == SelectSeq(reply.content, LAMBDA tok : tok.t # "fence")
      IN IF Len(cleaned) # 1 \/ cleaned[1].t # "object"
         THEN NoPromotion("Evaluation failed", labelCategory)
         ELSE LET parsed == cleaned[1]
              IN [shouldPromote |-> parsed.should_promote = Some(TRUE),
                  reason |-> "oracle",
                  englishName |-> parsed.english_name,
                  englishDisplayName |-> parsed.english_display_name,
                  suggestedCategory |-> IF parsed.suggested_category = Null
                                        THEN labelCategory
                                        ELSE Get(parsed.suggested_category),
                  threw |-> FALSE]

\* The row promoteLabelToSystem inserts for an organization.
PromotedRow(organizationId, evaluation, retentionDays) ==
    [id |-> LabelId(organizationId, Get(evaluation.englishName)),
     organizationId |-> organizationId,
     name |-> Get(evaluation.englishName),
     displayName |-> Get(evaluation.englishDisplayName),
     retentionDays |-> retentionDays,
     isSystem |-> TRUE, isActive |-> TRUE,
     category |-> evaluation.suggestedCategory]

\* selectDistinct organizationId where is_system.
OrgsWithLabels(labels) == {l.organizationId : l \in {x \in labels : x.isSystem}}

\* An organization's label of the name, if any.
ExistingForOrg(labels, organizationId, name) ==
    {l \in labels : l.organizationId = organizationId /\ l.name = name}

RECURSIVE PromoteLoop_StopsAtExisting(_, _, _, _, _, _)
\* Variant: the loop ends at the first organization that has the name.
PromoteLoop_StopsAtExisting(st, evaluation, retentionDays, orgs, k, failAt) ==
    IF st.threw \/ k > Len(orgs) THEN st
    ELSE IF ExistingForOrg(st.labels, orgs[k], Get(evaluation.englishName)) # {}
    THEN st
    ELSE IF k = failAt \/ evaluation.englishDisplayName = Null
    THEN [st EXCEPT !.threw = TRUE, !.failed = Some(orgs[k])]
    ELSE PromoteLoop_StopsAtExisting(
             [st EXCEPT !.labels = @ \cup {PromotedRow(orgs[k], evaluation, retentionDays)},
                        !.inserted = Append(@, orgs[k])],
             evaluation, retentionDays, orgs, k + 1, failAt)

RECURSIVE PromoteLoop(_, _, _, _, _, _)
\* The fan-out from the k-th organization on: the select of the
\* organization's label of the name, and the insert when there is none.  An
\* insert the datastore rejects (the failAt-th turn; a NULL display_name)
\* raises, and nothing in promoteLabelToSystem catches it.
PromoteLoop(st, evaluation, retentionDays, orgs, k, failAt) ==
    IF st.threw \/ k > Len(orgs) THEN st
    ELSE IF ExistingForOrg(st.labels, orgs[k], Get(evaluation.englishName)) # {}
    THEN PromoteLoop(st, evaluation, retentionDays, orgs, k + 1, failAt)
    ELSE IF k = failAt \/ evaluation.englishDisplayName = Null
    THEN [st EXCEPT !.threw = TRUE, !.failed = Some(orgs[k])]
    ELSE PromoteLoop(
             [st EXCEPT !.labels = @ \cup {PromotedRow(orgs[k], evaluation, retentionDays)},
                        !.inserted = Append(@, orgs[k])],
             evaluation, retentionDays, orgs, k + 1, failAt)

\* What a promoteLabelToSystem call leaves: the catalog, whether it raised,
\* its result, the organizations it selected (in the order of the loop),
\* those it inserted into and the one whose insert failed.
Promotion(labels, threw, promoted, orgs, inserted, failed) ==
    [labels |-> labels, threw |-> threw, promoted |-> promoted, orgs |-> orgs,
     inserted |-> inserted, failed |-> failed]

\* Variant: the call does not look for a system label of the name.
promoteLabelToSystem_NoGlobalCheck(labels, evaluation, retentionDays, orgs, failAt) ==
    IF ~evaluation.shouldPromote \/ evaluation.englishName = Null
    THEN Promotion(labels, FALSE, FALSE, <<>>, <<>>, Null)
    ELSE
      LET st == PromoteLoop([labels |-> labels, threw |-> FALSE, inserted |-> <<>>,
                             failed |-> Null],
                            evaluation, retentionDays, orgs, 1, failAt)
      IN Promotion(st.labels, st.threw, ~st.threw, orgs, st.inserted, st.failed)

\* promoteLabelToSystem(evaluation, originalColor, retentionDays); orgs: the
\* rows of the select of the organizations, in the order they came.
promoteLabelToSystem(labels, evaluation, retentionDays, orgs, failAt) ==
    IF ~evaluation.shouldPromote \/ evaluation.englishName = Null
    THEN Promotion(labels, FALSE, FALSE, <<>>, <<>>, Null)
    ELSE IF \E l \in labels : l.name = Get(evaluation.englishName) /\ l.isSystem
    THEN Promotion(labels, FALSE, FALSE, <<>>, <<>>, Null)
    ELSE
      LET st == PromoteLoop([labels |-> labels, threw |-> FALSE, inserted |-> <<>>,
                             failed |-> Null],
                            evaluation, retentionDays, orgs, 1, failAt)
      IN Promotion(st.labels, st.threw, ~st.threw, orgs, st.inserted, st.failed)

----------------------------------------------------------------------------
(* Requests of the labels API and the promotion tasks they leave behind *)

\* The promotion tasks under way at most; a task is the promise chain a
\* POST starts and does not await.
Tasks == {"t1", "t2"}

\* Task t is at the given place, and takes its next step between two
\* requests.
TaskAt(t, pc) ==
    /\ t \in DOMAIN procs /\ procs[t].op = "promotion" /\ procs[t].pc = pc
    /\ req = NoRequest

\* No request is being served and no job runs; promotion tasks may, short
\* of their log line.
Served ==
    /\ req = NoRequest /\ cleanup = CleanupIdle /\ rerun = NoRerun /\ batch = BatchIdle
    /\ \A q \in DOMAIN procs : procs[q].op = "promotion" /\ procs[q].pc # "logged"

\* A user lists the labels of their organization.
LabelsGet(session, seedFailAt) ==
    /\ Served
    /\ LET r == LabelsGET(videoLabels, session, seedFailAt)
       IN /\ videoLabels' = r.labels
          /\ \E listing \in Listings(r.rows) :
                req' = [op |-> "GET labels", status |-> r.status, error |-> r.error,
                        session |-> session, labels |-> listing, before |-> videoLabels]
    /\ UNCHANGED <<videos, videoLabelAssignments, comments, spaceVideos, sharedVideos,
                   cleanup, rerun, jobs>>

\* A user creates a label; the response is given, the evaluation goes on
\* as task t when a row was created.
LabelsPost(session, body, insertOk) ==
    /\ Served
    /\ Tasks \ DOMAIN procs # {}
    /\ LET r == LabelsPOST(videoLabels, session, body, insertOk)
           t == CHOOSE u \in Tasks \ DOMAIN procs : TRUE
       IN /\ videoLabels' = r.labels
          /\ req' = [op |-> "POST labels", status |-> r.status, error |-> r.error,
                     session |-> session, body |-> body, before |-> videoLabels,
                     created |-> r.created, tasksBefore |-> DOMAIN procs]
          /\ procs' = IF r.created = Null THEN procs
                      ELSE procs @@ (t :>
                             [op |-> "promotion", pc |-> "evaluate",
                              label |-> Get(r.created), response |-> r.status,
                              oracle |-> Null, evaluation |-> Null,
                              before |-> {}, after |-> {}, promotion |-> Null,
                              caught |-> FALSE])
    /\ UNCHANGED <<videos, videoLabelAssignments, comments, spaceVideos, sharedVideos,
                   cleanup, rerun, batch>>

\* The task evaluates the label: .then(evaluation => ...) promotes or
\* answers promoted false; .catch logs whatever was raised.
Evaluate(t, configured, reply) ==
    /\ TaskAt(t, "evaluate")
    /\ LET e == evaluateLabelForPromotion(configured, reply, procs[t].label.category)
       IN procs' = [procs EXCEPT
              ![t].oracle = Some([configured |-> configured, reply |-> reply]),
              ![t].evaluation = Some(e),
              ![t].caught = e.threw,
              ![t].pc = IF ~e.threw /\ e.shouldPromote THEN "promote" ELSE "logged"]
    /\ UNCHANGED <<tables, cleanup, req, rerun, batch>>

\* The task promotes the label: promoteLabelToSystem(evaluation,
\* labelColor, labelRetention), its result or its exception logged.
Promote(t, orgs, failAt) ==
    /\ TaskAt(t, "promote")
    /\ orgs \in Orderings(OrgsWithLabels(videoLabels))
    /\ LET r == promoteLabelToSystem(videoLabels, Get(procs[t].evaluation),
                                     procs[t].label.retentionDays, orgs, failAt)
       IN /\ videoLabels' = r.labels
          /\ procs' = [procs EXCEPT
                 ![t].before = videoLabels,
                 ![t].after = r.labels,
                 ![t].promotion = Some([threw |-> r.threw, promoted |-> r.promoted,
                                        orgs |-> r.orgs, inserted |-> r.inserted,
                                        failed |-> r.failed]),
                 ![t].caught = r.threw,
                 ![t].pc = "logged"]
    /\ UNCHANGED <<videos, videoLabelAssignments, comments, spaceVideos, sharedVideos,
                   cleanup, req, rerun, batch>>

\* The log line is written: the task is over.
PromotionEnd(t) ==
    /\ TaskAt(t, "logged")
    /\ procs' = [u \in DOMAIN procs \ {t} |-> procs[u]]
    /\ UNCHANGED <<tables, cleanup, req, rerun, batch>>

----------------------------------------------------------------------------
(* Specification: label requests, served one at a time, every statement of *)
(* a handler accepted by the datastore unless it violates a constraint     *)

Next ==
    \/ \E user \in Users, videoId \in VideoIds, labelIds \in SeqsUpTo(LabelIds, MaxLabelIds),
          keepPermanently \in KeepParams :
          PostVideoLabels(user, videoId, labelIds, keepPermanently, "none")
    \/ \E videoId \in VideoIds, suggestions \in SeqsUpTo(Suggestions, MaxSuggestions) :
          AutoAssign(videoId, suggestions, 0)
    \/ Return

Spec == Init /\ [][Next]_vars

----------------------------------------------------------------------------
(* Specification: the cleanup job among label requests; the datastore may  *)
(* reject any statement of the job and the expiration update of a request  *)

CleanupBodies == {<<>>, <<"l1">>, <<"l2">>, <<"l3">>}
CleanupSuggestions == {<<[labelName |-> "TROUBLESHOOTING", confidence |-> 7500]>>}

NextCleanup ==
    \/ \E user \in Users, videoId \in VideoIds, labelIds \in CleanupBodies,
          keepPermanently \in KeepParams, fail \in {"none", "expiration"} :
          PostVideoLabels(user, videoId, labelIds, keepPermanently, fail)
    \/ \E videoId \in VideoIds, suggestions \in CleanupSuggestions :
          AutoAssign(videoId, suggestions, 0)
    \/ Return
    \/ \E now \in ClockReadings, order \in SeqsUpTo(VideoIds, Cardinality(VideoIds)) :
          CleanupStart(now, order)
    \/ \E reply \in AssetStoreReplies : CleanupFiles(reply)
    \/ \E ok \in BOOLEAN : CleanupComments(ok)
    \/ \E ok \in BOOLEAN : CleanupLabelAssignments(ok)
    \/ \E ok \in BOOLEAN : CleanupSpaceVideos(ok)
    \/ \E ok \in BOOLEAN : CleanupSharedVideos(ok)
    \/ \E ok \in BOOLEAN : CleanupVideo(ok)
    \/ CleanupReturn
    \/ CleanupInterrupt

SpecCleanup == Init /\ [][NextCleanup]_vars

----------------------------------------------------------------------------
(* Specification: label requests where every autoAssignLabels call is made *)
(* twice in succession with the same arguments                             *)

NextRepeat ==
    \/ \E user \in Users, videoId \in VideoIds, labelIds \in SeqsUpTo(LabelIds, MaxLabelIds),
          keepPermanently \in KeepParams :
          PostVideoLabels(user, videoId, labelIds, keepPermanently, "none")
    \/ \E videoId \in VideoIds, suggestions \in SeqsUpTo(Suggestions, MaxSuggestions) :
          AutoAssignFirst(videoId, suggestions)
    \/ AutoAssignAgain
    \/ RerunReturn
    \/ Return

SpecRepeat == Init /\ [][NextRepeat]_vars

----------------------------------------------------------------------------
(* Specification: the auto-assigner over a catalog that also holds an      *)
(* inactive label and a label of another organization, among label posts   *)

\* Rows of video_labels beside the seeded ones: a label of the organization
\* with is_active = 0, and a label of another organization.
OtherLabels ==
    { [id |-> "l4", organizationId |-> "org1", name |-> "WEBINAR",
       displayName |-> "Webinar", retentionDays |-> Some(7),
       isSystem |-> FALSE, isActive |-> FALSE,
       category |-> "content_type"],
      [id |-> "l5", organizationId |-> "org2", name |-> "SALES",
       displayName |-> "Sales", retentionDays |-> Some(7),
       isSystem |-> TRUE, isActive |-> TRUE,
       category |-> "department"] }

InitAssign ==
    /\ videos = InitialVideos
    /\ videoLabels = SeededLabels \cup OtherLabels
    /\ videoLabelAssignments = {}
    /\ comments = [v \in VideoIds |-> MaxRows]
    /\ spaceVideos = [v \in VideoIds |-> MaxRows]
    /\ sharedVideos = [v \in VideoIds |-> MaxRows]
    /\ cleanup = CleanupIdle
    /\ req = NoRequest
    /\ rerun = NoRerun
    /\ batch = BatchIdle
    /\ procs = NoProcs

AssignBodies == {<<>>, <<"l1">>, <<"l3">>, <<"l2", "l2">>}

\* What the classifier suggests: at and just below the cutoff, names that
\* resolve, an inactive one, one of another organization, an unknown one.
AssignSuggestions ==
    { [labelName |-> "TROUBLESHOOTING", confidence |-> 7500],
      [labelName |-> "TROUBLESHOOTING", confidence |-> 7499],
      [labelName |-> "TECH", confidence |-> 9000],
      [labelName |-> "WEBINAR", confidence |-> 9000],
      [labelName |-> "SALES", confidence |-> 9000],
      [labelName |-> "PODCAST", confidence |-> 9000] }

NextAssign ==
    \/ \E user \in Users, videoId \in VideoIds, labelIds \in AssignBodies,
          keepPermanently \in KeepParams :
          PostVideoLabels(user, videoId, labelIds, keepPermanently, "none")
    \/ \E videoId \in VideoIds, suggestions \in SeqsUpTo(AssignSuggestions, MaxSuggestions) :
          AutoAssignTraced(videoId, suggestions)
    \/ Return

SpecAssign == InitAssign /\ [][NextAssign]_vars

----------------------------------------------------------------------------
(* Specification: label requests whose body names any label id: of the     *)
(* video's organization, of another one, of no label                       *)

\* l4 is an inactive label of org1, l5 a label of org2, l9 the id of no label.
AnyLabelBodies == {<<>>, <<"l1">>, <<"l4">>, <<"l5">>, <<"l9">>, <<"l1", "l5">>}

NextAnyLabel ==
    \/ \E user \in Users, videoId \in VideoIds, labelIds \in AnyLabelBodies,
          keepPermanently \in KeepParams :
          PostVideoLabels(user, videoId, labelIds, keepPermanently, "none")
    \/ \E videoId \in VideoIds, suggestions \in SeqsUpTo(AssignSuggestions, MaxSuggestions) :
          AutoAssign(videoId, suggestions, 0)
    \/ Return

SpecAnyLabel == InitAssign /\ [][NextAnyLabel]_vars

----------------------------------------------------------------------------
(* autoAssignLabels, statement by statement, for calls under way together *)

Callers == {"a1", "a2"}

\* The call p is at the given place of autoAssignLabels.
At(p, pc) == p \in DOMAIN procs /\ procs[p].op = "autoAssignLabels" /\ procs[p].pc = pc

\* The loop moves to the next suggestion.
NextSuggestion(c) == [c EXCEPT !.i = c.i + 1, !.pc = "loop"]

\* The call begins: the select of the organization's active labels.
RaceStart(p, videoId, suggestions) ==
    /\ req = NoRequest /\ cleanup = CleanupIdle /\ rerun = NoRerun /\ batch = BatchIdle
    /\ p \notin DOMAIN procs
    /\ \A q \in DOMAIN procs : procs[q].op = "autoAssignLabels"
    /\ videoId \in DOMAIN videos
    /\ procs' = procs @@ (p :>
          [op |-> "autoAssignLabels", pc |-> "loop", videoId |-> videoId,
           organizationId |-> videos[videoId].orgId,
           systemUserId |-> videos[videoId].ownerId,
           suggestions |-> suggestions, i |-> 1,
           orgLabels |-> {l \in videoLabels :
                             l.organizationId = videos[videoId].orgId /\ l.isActive},
           assigned |-> <<>>, skipped |-> <<>>, label |-> Null, video |-> Null,
           expiresAt |-> Null, violated |-> FALSE, recomputed |-> FALSE])
    /\ UNCHANGED <<tables, cleanup, req, rerun, batch>>

\* Top of the loop: cutoff, labelMap.get and the select of an existing row.
RaceCheck(p) ==
    /\ At(p, "loop")
    /\ LET c == procs[p]
       IN IF c.i > Len(c.suggestions)
          THEN procs' = [procs EXCEPT ![p].pc = "video"]
          ELSE LET suggestion == c.suggestions[c.i]
                   found == {l \in c.orgLabels : l.name = suggestion.labelName}
                   skip == NextSuggestion([c EXCEPT !.skipped =
                                               Append(@, suggestion.labelName)])
               IN IF suggestion.confidence < ConfidenceCutoff \/ found = {}
                  THEN procs' = [procs EXCEPT ![p] = skip]
                  ELSE IF \E a \in videoLabelAssignments :
                             a.videoId = c.videoId /\ a.labelId = Get(found).id
                       THEN procs' = [procs EXCEPT ![p] = skip]
                       ELSE procs' = [procs EXCEPT ![p].pc = "insert",
                                                   ![p].label = Some(Get(found).id)]
    /\ UNCHANGED <<tables, cleanup, req, rerun, batch>>

\* The insert of the row.  A violation of video_label_unique raises, and
\* nothing in autoAssignLabels catches it: the call ends there.
RaceInsert(p) ==
    /\ At(p, "insert")
    /\ LET c == procs[p]
           suggestion == c.suggestions[c.i]
           row == AssignmentRow(c.videoId, Get(c.label), c.systemUserId, TRUE,
                                Some(suggestion.confidence))
       IN IF ViolatesUnique(videoLabelAssignments, <<row>>)
          THEN /\ procs' = [procs EXCEPT ![p].pc = "threw", ![p].violated = TRUE]
               /\ UNCHANGED videoLabelAssignments
          ELSE /\ videoLabelAssignments' = videoLabelAssignments \cup {row}
               /\ procs' = [procs EXCEPT ![p] =
                               NextSuggestion([c EXCEPT !.assigned =
                                                  Append(@, suggestion.labelName)])]
    /\ UNCHANGED <<videos, videoLabels, comments, spaceVideos, sharedVideos,
                   cleanup, req, rerun, batch>>

\* updateVideoExpiration: the select of the video.
RaceSelectVideo(p) ==
    /\ At(p, "video")
    /\ LET c == procs[p]
       IN IF c.videoId \notin DOMAIN videos
          THEN procs' = [procs EXCEPT ![p].pc = "done"]
          ELSE IF videos[c.videoId].keepPermanently
          THEN procs' = [procs EXCEPT ![p].pc = "update",
                                      ![p].video = Some(videos[c.videoId]),
                                      ![p].expiresAt = Null]
          ELSE procs' = [procs EXCEPT ![p].pc = "labels",
                                      ![p].video = Some(videos[c.videoId])]
    /\ UNCHANGED <<tables, cleanup, req, rerun, batch>>

\* updateVideoExpiration: the select of the assigned labels, and the minimum.
RaceSelectLabels(p) ==
    /\ At(p, "labels")
    /\ LET c == procs[p]
       IN procs' = [procs EXCEPT ![p].pc = "update",
                                 ![p].expiresAt =
                                     computeExpiresAt(Get(c.video),
                                         AssignedLabels(videoLabels, videoLabelAssignments,
                                                        c.videoId))]
    /\ UNCHANGED <<tables, cleanup, req, rerun, batch>>

\* updateVideoExpiration: the update of expiresAt; the call returns.
RaceUpdate(p) ==
    /\ At(p, "update")
    /\ LET c == procs[p]
       IN /\ videos' = IF c.videoId \in DOMAIN videos
                       THEN [videos EXCEPT ![c.videoId].expiresAt = c.expiresAt]
                       ELSE videos
          /\ procs' = [procs EXCEPT ![p].pc = "done", ![p].recomputed = TRUE]
    /\ UNCHANGED <<videoLabels, videoLabelAssignments, comments, spaceVideos,
                   sharedVideos, cleanup, req, rerun, batch>>

\* Every call under way has ended; their callers have answered.
RaceEnd ==
    /\ procs # NoProcs
    /\ \A p \in DOMAIN procs :
          procs[p].op = "autoAssignLabels" /\ procs[p].pc \in {"done", "threw"}
    /\ procs' = NoProcs
    /\ UNCHANGED <<tables, cleanup, req, rerun, batch>>

RaceSuggestions ==
    { <<>>,
      <<[labelName |-> "TROUBLESHOOTING", confidence |-> 7500]>>,
      <<[labelName |-> "TROUBLESHOOTING", confidence |-> 9000],
        [labelName |-> "TECH", confidence |-> 9000]>>,
      <<[labelName |-> "MEETING_RECORDING", confidence |-> 9000],
        [labelName |-> "TROUBLESHOOTING", confidence |-> 9000]>> }

\* The calls under way together are for one video.
RaceVideos == {"v1"}

NextRace ==
    \/ \E p \in Callers, videoId \in RaceVideos, suggestions \in RaceSuggestions :
          RaceStart(p, videoId, suggestions)
    \/ \E p \in Callers : RaceCheck(p)
    \/ \E p \in Callers : RaceInsert(p)
    \/ \E p \in Callers : RaceSelectVideo(p)
    \/ \E p \in Callers : RaceSelectLabels(p)
    \/ \E p \in Callers : RaceUpdate(p)
    \/ RaceEnd

SpecRace == Init /\ [][NextRace]_vars

----------------------------------------------------------------------------
(* Specification: seeding the catalog of organizations, call after call    *)

Orgs == {"org1", "org2"}

\* A label a user created through POST /api/labels.
UserLabel(organizationId, name) ==
    [id |-> LabelId(organizationId, name), organizationId |-> organizationId,
     name |-> name, displayName |-> name, retentionDays |-> Null,
     isSystem |-> FALSE, isActive |-> TRUE,
     category |-> "content_type"]

\* Catalogs before any seeding: empty, or with labels users created.
UnseededCatalogs ==
    { {},
      {UserLabel("org1", "WEBINAR")},
      {UserLabel("org1", "DEMO")},
      {UserLabel("org2", "TECH"), UserLabel("org1", "WEBINAR")} }

InitSeed ==
    /\ videos = InitialVideos
    /\ videoLabels \in UnseededCatalogs
    /\ videoLabelAssignments = {}
    /\ comments = [v \in VideoIds |-> MaxRows]
    /\ spaceVideos = [v \in VideoIds |-> MaxRows]
    /\ sharedVideos = [v \in VideoIds |-> MaxRows]
    /\ cleanup = CleanupIdle
    /\ req = NoRequest
    /\ rerun = NoRerun
    /\ batch = BatchIdle
    /\ procs = NoProcs

\* A caller (GET /api/labels, a classify request) seeds an organization.
Seed(organizationId, failAt) ==
    /\ Quiet
    /\ LET r == seedSystemLabels(videoLabels, organizationId, failAt)
       IN /\ videoLabels' = r.labels
          /\ req' = [op |-> "seedSystemLabels", organizationId |-> organizationId,
                     threw |-> r.threw, before |-> videoLabels]
    /\ UNCHANGED <<videos, videoLabelAssignments, comments, spaceVideos, sharedVideos,
                   cleanup, rerun, jobs>>

SeedFailures == 0..(Len(SYSTEM_LABELS.content_type) + Len(SYSTEM_LABELS.department))

NextSeed ==
    \/ \E organizationId \in Orgs, failAt \in SeedFailures : Seed(organizationId, failAt)
    \/ Return

SpecSeed == InitSeed /\ [][NextSeed]_vars

----------------------------------------------------------------------------
(* seedSystemLabels, statement by statement, for calls under way together *)

Seeders == {"s1", "s2"}

SeedAt(p, pc) == p \in DOMAIN procs /\ procs[p].op = "seedSystemLabels" /\ procs[p].pc = pc

\* The call begins: the select of a system label of the organization.
SeedStart(p, organizationId) ==
    /\ req = NoRequest /\ cleanup = CleanupIdle /\ rerun = NoRerun /\ batch = BatchIdle
    /\ p \notin DOMAIN procs
    /\ \A q \in DOMAIN procs : procs[q].op = "seedSystemLabels"
    /\ procs' = procs @@ (p :>
          [op |-> "seedSystemLabels", organizationId |-> organizationId,
           pc |-> IF SystemLabelsOf(videoLabels, organizationId) # {}
                  THEN "done" ELSE "insert",
           k |-> 1])
    /\ UNCHANGED <<tables, cleanup, req, rerun, batch>>

\* The next insert of the two loops.  A violation of org_name_unique
\* raises, and nothing in seedSystemLabels catches it.
SeedInsert(p) ==
    /\ SeedAt(p, "insert")
    /\ LET c == procs[p]
           rows == SeedRows(c.organizationId)
       IN IF ViolatesOrgName(videoLabels, rows[c.k])
          THEN /\ procs' = [procs EXCEPT ![p].pc = "threw"]
               /\ UNCHANGED videoLabels
          ELSE /\ videoLabels' = videoLabels \cup {rows[c.k]}
               /\ procs' = [procs EXCEPT ![p].k = c.k + 1,
                                         ![p].pc = IF c.k = Len(rows) THEN "done"
                                                   ELSE "insert"]
    /\ UNCHANGED <<videos, videoLabelAssignments, comments, spaceVideos, sharedVideos,
                   cleanup, req, rerun, batch>>

\* Every call under way has ended.
SeedEnd ==
    /\ procs # NoProcs
    /\ \A p \in DOMAIN procs :
          procs[p].op = "seedSystemLabels" /\ procs[p].pc \in {"done", "threw"}
    /\ procs' = NoProcs
    /\ UNCHANGED <<tables, cleanup, req, rerun, batch>>

NextSeedRace ==
    \/ \E p \in Seeders, organizationId \in Orgs : SeedStart(p, organizationId)
    \/ \E p \in Seeders : SeedInsert(p)
    \/ SeedEnd

SpecSeedRace == InitSeed /\ [][NextSeedRace]_vars

----------------------------------------------------------------------------
(* Specification: classification requests and the admin batch, one at a    *)
(* time, over videos in every transcription state                          *)

TranscriptionStates == {Null, Some("PROCESSING"), Some("COMPLETE"), Some("NO_AUDIO")}

InitClassify ==
    /\ \E status \in TranscriptionStates :
          videos = [InitialVideos EXCEPT !["v1"].transcriptionStatus = status]
    /\ videoLabels \in {SeededLabels, {}}
    /\ videoLabelAssignments = {}
    /\ comments = [v \in VideoIds |-> MaxRows]
    /\ spaceVideos = [v \in VideoIds |-> MaxRows]
    /\ sharedVideos = [v \in VideoIds |-> MaxRows]
    /\ cleanup = CleanupIdle
    /\ req = NoRequest
    /\ rerun = NoRerun
    /\ batch = BatchIdle
    /\ procs = NoProcs

Troubleshooting ==
    JsonObject(Some("TROUBLESHOOTING"), Some(9000), Null, Some("TECH"), Some(8000),
               Some("eligible"))

Meeting == JsonObject(Some("MEETING_RECORDING"), Null, Some("TROUBLESHOOTING"), Null, Null, Null)

\* What the oracle answers: no answer, an error status, or a message whose
\* content is an object, a fenced object, prose, null, or missing.
OracleReplies ==
    { [kind |-> "network", content |-> <<>>],
      [kind |-> "status", content |-> <<>>] }
    \cup
    { [kind |-> "ok", content |-> content] :
        content \in { <<Troubleshooting>>,
                      <<Fence("json"), Troubleshooting, Fence("")>>,
                      <<Meeting>>,
                      <<Prose>>,
                      <<Fence(""), Prose, Fence("")>>,
                      <<JsonNull>>,
                      <<>> } }

Readable == Some(MinTranscriptionLength)

\* The environments of the requests: every reply at every clock reading
\* with all else in order, and each other thing going wrong in turn.
ClassifyEnvironments ==
    { Environment(Readable, TRUE, reply, TRUE, now, 0, 0) :
          reply \in OracleReplies, now \in ClockReadings }
    \cup
    { Environment(transcription, TRUE, [kind |-> "ok", content |-> <<Troubleshooting>>],
                  TRUE, Min(ClockReadings), 0, 0) :
          transcription \in {Null, Some(0), Some(MinTranscriptionLength - 1)} }
    \cup
    { Environment(Readable, FALSE, [kind |-> "ok", content |-> <<Troubleshooting>>],
                  TRUE, Min(ClockReadings), 0, 0) }
    \cup
    { Environment(Readable, TRUE, [kind |-> "ok", content |-> content],
                  FALSE, Min(ClockReadings), 0, 0) :
          content \in {<<Troubleshooting>>, <<Prose>>} }
    \cup
    { Environment(Readable, TRUE, [kind |-> "ok", content |-> <<Troubleshooting>>],
                  TRUE, Min(ClockReadings), seedFailAt, assignFailAt) :
          seedFailAt \in {0, 2}, assignFailAt \in {0, 1} }

NextClassify ==
    \/ \E user \in Users, videoId \in VideoIds, env \in ClassifyEnvironments :
          PostClassify(user, videoId, env)
    \/ \E dryRun \in BOOLEAN, limit \in {Null, Some(0), Some(1)},
          order \in SeqsUpTo(VideoIds, Cardinality(VideoIds)) :
          BatchStart(dryRun, limit, order)
    \/ \E env \in ClassifyEnvironments : BatchVideo(env)
    \/ BatchReturn
    \/ Return

SpecClassify == InitClassify /\ [][NextClassify]_vars

----------------------------------------------------------------------------
(* Specification: classification requests over the objects the oracle may  *)
(* answer: each label present or not, each confidence absent, 0, at the    *)
(* cutoff, next to it, or 1                                                *)

\* Confidences of the oracle in [0, 1], in ten-thousandths.
OracleConfidences == {Null, Some(0), Some(1), Some(7499), Some(7500), Some(10000)}

\* The content-type part in every combination, and the department part
\* alone and beside a primary and a secondary.
OracleObjects ==
    { JsonObject(primary, confidence, secondary, Null, Null, Null) :
          primary \in {Null, Some("TROUBLESHOOTING")},
          confidence \in OracleConfidences,
          secondary \in {Null, Some("MEETING_RECORDING"), Some("TROUBLESHOOTING")} }
    \cup
    { JsonObject(primary, Some(10000), primary, Some("TECH"), departmentConfidence, Null) :
          primary \in {Null, Some("MEETING_RECORDING")},
          departmentConfidence \in {Null, Some(0), Some(9000)} }

SuggestEnvironments ==
    { Environment(Readable, TRUE, [kind |-> "ok", content |-> <<object>>], TRUE,
                  Min(ClockReadings), 0, 0) : object \in OracleObjects }

NextSuggest ==
    \/ \E user \in Users, videoId \in VideoIds, env \in SuggestEnvironments :
          PostClassify(user, videoId, env)
    \/ Return

SpecSuggest == Init /\ [][NextSuggest]_vars

----------------------------------------------------------------------------
(* Specification: the labels API, requests one at a time, with the         *)
(* promotion tasks they start                                              *)

\* The rows of a seeded organization.
Seeded(organizationId) == Range(SeedRows(organizationId))

\* A label of the organization with is_active = 0.
Inactive(label) == [label EXCEPT !.isActive = FALSE]

Webinar == <<"W", "E", "B", "I", "N", "A", "R">>

\* Catalogs the requests find: nothing, one organization seeded, and two
\* organizations seeded with labels of their users, one of them inactive.
LabelCatalogs ==
    { {},
      Seeded("org1"),
      Seeded("org1") \cup Seeded("org2")
        \cup {Inactive(CustomLabel("org1", Body(Webinar, "Webinar", Null, Some(7)))),
              CustomLabel("org2", Body(<<"X">>, "demo", Null, Null))} }

InitLabels ==
    /\ videos = InitialVideos
    /\ videoLabels \in LabelCatalogs
    /\ videoLabelAssignments = {}
    /\ comments = [v \in VideoIds |-> MaxRows]
    /\ spaceVideos = [v \in VideoIds |-> MaxRows]
    /\ sharedVideos = [v \in VideoIds |-> MaxRows]
    /\ cleanup = CleanupIdle
    /\ req = NoRequest
    /\ rerun = NoRerun
    /\ batch = BatchIdle
    /\ procs = NoProcs

Sessions == {Null, Session(Null), Session(Some("org1")), Session(Some("org2"))}

\* Names a body may carry: well-formed ones, and ones the format rejects
\* at the first character, at a later one, or for want of any.
BodyNames ==
    { <<"T", "U", "T", "O", "R", "I", "A", "L">>,
      <<"t", "u", "t", "o", "r", "i", "a", "l">>,
      <<"1", "2", "3", "X">>,
      <<"T", "U", " ", "T", "O", "R", "I", "A", "L">>,
      Webinar,
      <<"X", "1", "_">>,
      <<"_", "X">>,
      <<"T", "u">>,
      <<"X", "-">>,
      <<>> }

LabelBodies ==
    { Body(name, "X", Null, Null) : name \in BodyNames \ {<<"X", "1", "_">>} }
    \cup
    { Body(Webinar, "", Null, Null),
      Body(<<"X", "1", "_">>, "demo", Some("department"), Some(0)) }

\* What the evaluation oracle answers to the tasks of these requests.
Declines == EvaluationObject(Some(FALSE), Null, Null, Null)

\* The POST requests: every body by a user of each organization, one body
\* without a user or an organization, and one the datastore rejects.
LabelRequests ==
    { [session |-> Session(Some(org)), body |-> body, insertOk |-> TRUE] :
          org \in Orgs, body \in LabelBodies }
    \cup
    { [session |-> session, body |-> Body(Webinar, "X", Null, Null), insertOk |-> TRUE] :
          session \in {Null, Session(Null)} }
    \cup
    { [session |-> Session(Some("org1")), body |-> Body(Webinar, "X", Null, Null),
       insertOk |-> FALSE] }

NextLabels ==
    \/ \E session \in Sessions : LabelsGet(session, 0)
    \/ \E r \in LabelRequests : LabelsPost(r.session, r.body, r.insertOk)
    \/ \E t \in Tasks, configured \in BOOLEAN :
          Evaluate(t, configured, [kind |-> "ok", content |-> <<Declines>>])
    \/ \E t \in Tasks : PromotionEnd(t)
    \/ Return

SpecLabels == InitLabels /\ [][NextLabels]_vars

----------------------------------------------------------------------------
(* POST /api/labels, statement by statement, for requests under way        *)
(* together                                                                *)

Creators == {"c1", "c2"}

CreateAt(p, pc) == p \in DOMAIN procs /\ procs[p].op = "POST labels" /\ procs[p].pc = pc

\* The request arrives: the body is validated and the label of the same
\* name selected.
CreateStart(p, session, body) ==
    /\ req = NoRequest /\ cleanup = CleanupIdle /\ rerun = NoRerun /\ batch = BatchIdle
    /\ p \notin DOMAIN procs
    /\ \A q \in DOMAIN procs : procs[q].op = "POST labels"
    /\ LET found == LabelsPOST(videoLabels, session, body, TRUE)
           call == [op |-> "POST labels", session |-> session, body |-> body,
                    before |-> videoLabels, evaluationStarted |-> FALSE]
       IN procs' = procs @@ (p :>
              IF found.status = 200
              THEN call @@ [pc |-> "insert", status |-> 0, error |-> "none"]
              ELSE call @@ [pc |-> "done", status |-> found.status, error |-> found.error])
    /\ UNCHANGED <<tables, cleanup, req, rerun, batch>>

\* The insert.  A violation of org_name_unique raises into the handler's
\* catch, which answers 500; otherwise the evaluation is started and the
\* success answered.
CreateInsert(p) ==
    /\ CreateAt(p, "insert")
    /\ LET c == procs[p]
           row == CustomLabel(Get(Get(c.session).activeOrganizationId), c.body)
       IN IF ViolatesOrgName(videoLabels, row)
          THEN /\ procs' = [procs EXCEPT ![p].pc = "done", ![p].status = 500,
                                         ![p].error = "Failed to create label"]
               /\ UNCHANGED videoLabels
          ELSE /\ videoLabels' = videoLabels \cup {row}
               /\ procs' = [procs EXCEPT ![p].pc = "done", ![p].status = 200,
                                         ![p].evaluationStarted = TRUE]
    /\ UNCHANGED <<videos, videoLabelAssignments, comments, spaceVideos, sharedVideos,
                   cleanup, req, rerun, batch>>

\* Every request under way has its response.
CreateEnd ==
    /\ procs # NoProcs
    /\ \A p \in DOMAIN procs : procs[p].op = "POST labels" /\ procs[p].pc = "done"
    /\ procs' = NoProcs
    /\ UNCHANGED <<tables, cleanup, req, rerun, batch>>

\* The requests under way together: a free name, a name of the system
\* vocabulary and a malformed one, by users of each organization.
RaceRequests ==
    { [session |-> Session(Some(org)), body |-> Body(name, "X", Null, Null)] :
          org \in Orgs,
          name \in {Webinar, <<"T", "U", "T", "O", "R", "I", "A", "L">>, <<"T", "u">>} }

NextLabelRace ==
    \/ \E p \in Creators, r \in RaceRequests : CreateStart(p, r.session, r.body)
    \/ \E p \in Creators : CreateInsert(p)
    \/ CreateEnd

SpecLabelRace == InitLabels /\ [][NextLabelRace]_vars

----------------------------------------------------------------------------
(* Specification: custom labels and their promotion over seeded            *)
(* organizations; the datastore may reject an insert of the fan-out        *)

PromoteOrgs == {"org1", "org2", "org3"}

Training == <<"T", "R", "A", "I", "N", "I", "N", "G">>

\* Two organizations seeded and one that never was, which has a label of a
\* user; in the second catalog a seeded organization has a label of a user
\* under a name the oracle suggests.
PromotionCatalogs ==
    { Seeded("org1") \cup Seeded("org2")
        \cup {CustomLabel("org3", Body(<<"X">>, "X", Null, Null))},
      Seeded("org1") \cup Seeded("org2")
        \cup {CustomLabel("org3", Body(<<"X">>, "X", Null, Null)),
              CustomLabel("org2", Body(Training, "Training", Null, Some(7)))} }

InitPromotion ==
    /\ videos = InitialVideos
    /\ videoLabels \in PromotionCatalogs
    /\ videoLabelAssignments = {}
    /\ comments = [v \in VideoIds |-> MaxRows]
    /\ spaceVideos = [v \in VideoIds |-> MaxRows]
    /\ sharedVideos = [v \in VideoIds |-> MaxRows]
    /\ cleanup = CleanupIdle
    /\ req = NoRequest
    /\ rerun = NoRerun
    /\ batch = BatchIdle
    /\ procs = NoProcs

\* A user of each organization creates the label WEBINAR.
PromotionRequests ==
    { [session |-> Session(Some(org)), body |-> Body(Webinar, "Webinar", Null, Some(30)),
       insertOk |-> TRUE] : org \in PromoteOrgs }

\* An answer of the oracle in favour of the promotion under the given name.
Promotable(name, displayName) ==
    EvaluationObject(Some(TRUE), Some(name), Some(displayName), Null)

\* What the evaluation oracle answers: no answer, an error status, or a
\* message whose content is missing, not JSON, null, or an object.
EvaluationReplies ==
    { [kind |-> "network", content |-> <<>>],
      [kind |-> "status", content |-> <<>>] }
    \cup
    { [kind |-> "ok", content |-> content] :
        content \in { <<>>,
                      <<Prose>>,
                      <<JsonNull>>,
                      <<Declines>>,
                      <<EvaluationObject(Null, Some("TRAINING"), Some("Training"), Null)>>,
                      <<EvaluationObject(Some(TRUE), Null, Null, Null)>>,
                      <<EvaluationObject(Some(TRUE), Some("TRAINING"), Null, Null)>>,
                      <<Fence("json"), Promotable("TRAINING", "Training"), Fence("")>>,
                      <<Promotable("WEBINAR", "Webinar")>>,
                      <<Promotable("DEMO", "Demo")>> } }

\* The key is configured and the oracle answers anything, or it is not.
EvaluationEnvironments ==
    { [configured |-> TRUE, reply |-> reply] : reply \in EvaluationReplies }
    \cup
    { [configured |-> FALSE, reply |-> [kind |-> "ok", content |-> <<Declines>>]] }

NextPromotion ==
    \/ \E r \in PromotionRequests : LabelsPost(r.session, r.body, r.insertOk)
    \/ \E t \in Tasks, env \in EvaluationEnvironments :
          Evaluate(t, env.configured, env.reply)
    \/ \E t \in Tasks, orgs \in SeqsUpTo(PromoteOrgs, Cardinality(PromoteOrgs)),
          failAt \in 0..Cardinality(Orgs) :
          Promote(t, orgs, failAt)
    \/ \E t \in Tasks : PromotionEnd(t)
    \/ Return

SpecPromotion == InitPromotion /\ [][NextPromotion]_vars

----------------------------------------------------------------------------
(* Specification: custom labels created with any retentionDays a body may  *)
(* carry, and their promotion                                              *)

\* retentionDays of a request body: absent, negative, zero, positive.
RetentionValues == {Null, Some(0 - 7), Some(0), Some(1), Some(30)}

RetentionRequests ==
    { [session |-> Session(Some(org)), body |-> Body(Webinar, "Webinar", Null, days),
       insertOk |-> TRUE] : org \in PromoteOrgs, days \in RetentionValues }

RetentionReplies ==
    { [kind |-> "ok", content |-> <<Promotable("WEBINAR", "Webinar")>>],
      [kind |-> "ok", content |-> <<Declines>>] }

NextRetention ==
    \/ \E r \in RetentionRequests : LabelsPost(r.session, r.body, r.insertOk)
    \/ \E t \in Tasks, reply \in RetentionReplies : Evaluate(t, TRUE, reply)
    \/ \E t \in Tasks, orgs \in SeqsUpTo(PromoteOrgs, Cardinality(PromoteOrgs)) :
          Promote(t, orgs, 0)
    \/ \E t \in Tasks : PromotionEnd(t)
    \/ Return

SpecRetention == InitPromotion /\ [][NextRetention]_vars

----------------------------------------------------------------------------
(* Specification: transcribeVideo, statement by statement, for calls under *)
(* way together; the settings, the media and the transcription service are *)
(* what each call finds                                                    *)

Transcribers == {"x1", "x2"}

\* The call p is at the given place of transcribeVideo.
TranscribeAt(p, pc) == p \in DOMAIN procs /\ procs[p].op = "transcribeVideo" /\ procs[p].pc = pc

\* The update of transcriptionStatus where id = videoId.
SetStatus(vs, videoId, status) ==
    IF videoId \in DOMAIN vs THEN [vs EXCEPT ![videoId].transcriptionStatus = status]
    ELSE vs

\* The call begins: the key and the arguments, the select of the video with
\* its settings, the disableTranscript branch (its update inside its own
\* try), and the test of the status read.  ok: whether the datastore
\* accepts the update.
TranscribeStart(p, videoId, configured, disableTranscript, ok) ==
    /\ req = NoRequest /\ cleanup = CleanupIdle /\ rerun = NoRerun /\ batch = BatchIdle
    /\ p \notin DOMAIN procs
    /\ \A q \in DOMAIN procs : procs[q].op = "transcribeVideo"
    /\ LET call(pc, success) ==
               [op |-> "transcribeVideo", pc |-> pc, videoId |-> videoId,
                success |-> success,
                read |-> IF videoId \in DOMAIN videos
                         THEN videos[videoId].transcriptionStatus ELSE Null]
       IN IF ~configured \/ videoId \notin DOMAIN videos
          THEN /\ procs' = procs @@ (p :> call("done", FALSE))
               /\ UNCHANGED videos
          ELSE IF disableTranscript
          THEN /\ procs' = procs @@ (p :> call("done", ok))
               /\ videos' = IF ok THEN SetStatus(videos, videoId, Some("SKIPPED"))
                            ELSE videos
          ELSE IF videos[videoId].transcriptionStatus \in
                     {Some("COMPLETE"), Some("PROCESSING"), Some("SKIPPED"), Some("NO_AUDIO")}
          THEN /\ procs' = procs @@ (p :> call("done", TRUE))
               /\ UNCHANGED videos
          ELSE /\ procs' = procs @@ (p :> call("mark", FALSE))
               /\ UNCHANGED videos
    /\ UNCHANGED <<videoLabels, videoLabelAssignments, comments, spaceVideos,
                   sharedVideos, cleanup, req, rerun, batch>>

\* Mark as processing.
TranscribeMark(p, ok) ==
    /\ TranscribeAt(p, "mark")
    /\ IF ok
       THEN /\ videos' = SetStatus(videos, procs[p].videoId, Some("PROCESSING"))
            /\ procs' = [procs EXCEPT ![p].pc = "work"]
       ELSE /\ procs' = [procs EXCEPT ![p].pc = "catch"]
            /\ UNCHANGED videos
    /\ UNCHANGED <<videoLabels, videoLabelAssignments, comments, spaceVideos,
                   sharedVideos, cleanup, req, rerun, batch>>

\* From the bucket access to the last update.  audio: the check of the
\* audio track raises (or something before it), finds none, or finds one;
\* transcribed: whether extraction, upload and transcription all succeed;
\* ok: whether the datastore accepts the update of the status.
TranscribeWork(p, audio, transcribed, ok) ==
    /\ TranscribeAt(p, "work")
    /\ LET videoId == procs[p].videoId
           status == IF audio = "none" THEN Some("NO_AUDIO") ELSE Some("COMPLETE")
       IN IF audio = "error" \/ (audio = "track" /\ ~transcribed) \/ ~ok
          THEN /\ procs' = [procs EXCEPT ![p].pc = "catch"]
               /\ UNCHANGED videos
          ELSE /\ videos' = SetStatus(videos, videoId, status)
               /\ procs' = [procs EXCEPT ![p].pc = "done", ![p].success = TRUE]
    /\ UNCHANGED <<videoLabels, videoLabelAssignments, comments, spaceVideos,
                   sharedVideos, cleanup, req, rerun, batch>>

\* catch: the status is cleared; an update the datastore rejects raises out
\* of the function.
TranscribeCatch(p, ok) ==
    /\ TranscribeAt(p, "catch")
    /\ IF ok
       THEN /\ videos' = SetStatus(videos, procs[p].videoId, Null)
            /\ procs' = [procs EXCEPT ![p].pc = "done", ![p].success = FALSE]
       ELSE /\ procs' = [procs EXCEPT ![p].pc = "threw"]
            /\ UNCHANGED videos
    /\ UNCHANGED <<videoLabels, videoLabelAssignments, comments, spaceVideos,
                   sharedVideos, cleanup, req, rerun, batch>>

\* The call has returned or raised.
TranscribeEnd(p) ==
    /\ p \in DOMAIN procs
    /\ procs[p].op = "transcribeVideo"
    /\ procs[p].pc \in {"done", "threw"}
    /\ procs' = [q \in DOMAIN procs \ {p} |-> procs[q]]
    /\ UNCHANGED <<tables, cleanup, req, rerun, batch>>

\* v1 is uploaded and not yet transcribed, or transcribed; v2 is transcribed.
InitTranscribe ==
    /\ \E status \in {Null, Some("COMPLETE")} :
          videos = [InitialVideos EXCEPT !["v1"].transcriptionStatus = status]
    /\ videoLabels = SeededLabels
    /\ videoLabelAssignments = {}
    /\ comments = [v \in VideoIds |-> MaxRows]
    /\ spaceVideos = [v \in VideoIds |-> MaxRows]
    /\ sharedVideos = [v \in VideoIds |-> MaxRows]
    /\ cleanup = CleanupIdle
    /\ req = NoRequest
    /\ rerun = NoRerun
    /\ batch = BatchIdle
    /\ procs = NoProcs

NextTranscribe ==
    \/ \E p \in Transcribers, videoId \in VideoIds, configured \in BOOLEAN,
          disableTranscript \in BOOLEAN, ok \in BOOLEAN :
          TranscribeStart(p, videoId, configured, disableTranscript, ok)
    \/ \E p \in Transcribers, ok \in BOOLEAN : TranscribeMark(p, ok)
    \/ \E p \in Transcribers, audio \in {"error", "none", "track"},
          transcribed \in BOOLEAN, ok \in BOOLEAN :
          TranscribeWork(p, audio, transcribed, ok)
    \/ \E p \in Transcribers, ok \in BOOLEAN : TranscribeCatch(p, ok)
    \/ \E p \in Transcribers : TranscribeEnd(p)

SpecTranscribe == InitTranscribe /\ [][NextTranscribe]_vars

----------------------------------------------------------------------------
(* Specification: the cron cleanup with a label request under way          *)
----------------------------------------------------------------------------
(* POST /api/videos/[videoId]/labels, statement by statement: no statement *)
(* of the handler or of the cleanup takes a lock or opens a transaction    *)

Writers == {"w1"}

\* The request p is at the given place of the handler.
WriteAt(p, pc) == p \in DOMAIN procs /\ procs[p].op = "POST videoLabels" /\ procs[p].pc = pc

\* The request arrives: the select of the video, the ownership check, the
\* body, and the select of the current assignments.
WriteStart(p, user, videoId, labelIds, keepPermanently) ==
    /\ req = NoRequest /\ rerun = NoRerun /\ batch = BatchIdle
    /\ p \notin DOMAIN procs
    /\ \A q \in DOMAIN procs : procs[q].op = "POST videoLabels"
    /\ LET currentLabelIds ==
               {a.labelId : a \in {b \in videoLabelAssignments : b.videoId = videoId}}
           call(pc, status) ==
               [op |-> "POST videoLabels", pc |-> pc, status |-> status, user |-> user,
                videoId |-> videoId, labelIds |-> labelIds,
                keepPermanently |-> keepPermanently,
                labelsToAdd |-> SelectSeq(labelIds, LAMBDA id : id \notin currentLabelIds),
                labelsToRemove |-> {id \in currentLabelIds : id \notin Range(labelIds)},
                video |-> Null, expiresAt |-> Null]
       IN procs' = procs @@ (p :>
              IF videoId \notin DOMAIN videos THEN call("done", 404)
              ELSE IF videos[videoId].ownerId # user THEN call("done", 403)
              ELSE call("delete", 0))
    /\ UNCHANGED <<tables, cleanup, req, rerun, batch>>

\* if (labelsToRemove.length > 0) delete the removed assignments
WriteDelete(p) ==
    /\ WriteAt(p, "delete")
    /\ LET c == procs[p]
       IN videoLabelAssignments' =
              {a \in videoLabelAssignments :
                  ~(a.videoId = c.videoId /\ a.labelId \in c.labelsToRemove)}
    /\ procs' = [procs EXCEPT ![p].pc = "insert"]
    /\ UNCHANGED <<videos, videoLabels, comments, spaceVideos, sharedVideos,
                   cleanup, req, rerun, batch>>

\* if (labelsToAdd.length > 0) insert the added assignments in one
\* statement; a violation of video_label_unique reaches the catch-block.
WriteInsert(p) ==
    /\ WriteAt(p, "insert")
    /\ LET c == procs[p]
           values == [i \in 1..Len(c.labelsToAdd) |->
                         AssignmentRow(c.videoId, c.labelsToAdd[i], c.user, FALSE, Null)]
       IN IF Len(c.labelsToAdd) > 0 /\ ViolatesUnique(videoLabelAssignments, values)
          THEN /\ procs' = [procs EXCEPT ![p].pc = "done", ![p].status = 500]
               /\ UNCHANGED videoLabelAssignments
          ELSE /\ videoLabelAssignments' = videoLabelAssignments \cup Range(values)
               /\ procs' = [procs EXCEPT ![p].pc = "keep"]
    /\ UNCHANGED <<videos, videoLabels, comments, spaceVideos, sharedVideos,
                   cleanup, req, rerun, batch>>

\* if (keepPermanently !== undefined) update the flag
WriteKeep(p) ==
    /\ WriteAt(p, "keep")
    /\ LET c == procs[p]
       IN videos' = IF c.keepPermanently # Null /\ c.videoId \in DOMAIN videos
                    THEN [videos EXCEPT ![c.videoId].keepPermanently =
                                            Get(c.keepPermanently)]
                    ELSE videos
    /\ procs' = [procs EXCEPT ![p].pc = "video"]
    /\ UNCHANGED <<videoLabels, videoLabelAssignments, comments, spaceVideos,
                   sharedVideos, cleanup, req, rerun, batch>>

\* updateVideoExpiration: the select of the video.
WriteSelectVideo(p) ==
    /\ WriteAt(p, "video")
    /\ LET c == procs[p]
       IN IF c.videoId \notin DOMAIN videos
          THEN procs' = [procs EXCEPT ![p].pc = "done", ![p].status = 200]
          ELSE IF videos[c.videoId].keepPermanently
          THEN procs' = [procs EXCEPT ![p].pc = "update",
                                      ![p].video = Some(videos[c.videoId]),
                                      ![p].expiresAt = Null]
          ELSE procs' = [procs EXCEPT ![p].pc = "labels",
                                      ![p].video = Some(videos[c.videoId])]
    /\ UNCHANGED <<tables, cleanup, req, rerun, batch>>

\* updateVideoExpiration: the select of the assigned labels, and the minimum.
WriteSelectLabels(p) ==
    /\ WriteAt(p, "labels")
    /\ LET c == procs[p]
       IN procs' = [procs EXCEPT ![p].pc = "update",
                                 ![p].expiresAt =
                                     computeExpiresAt(Get(c.video),
                                         AssignedLabels(videoLabels, videoLabelAssignments,
                                                        c.videoId))]
    /\ UNCHANGED <<tables, cleanup, req, rerun, batch>>

\* updateVideoExpiration: the update of expiresAt; the handler selects the
\* video again and answers.
WriteUpdate(p) ==
    /\ WriteAt(p, "update")
    /\ LET c == procs[p]
       IN videos' = IF c.videoId \in DOMAIN videos
                    THEN [videos EXCEPT ![c.videoId].expiresAt = c.expiresAt]
                    ELSE videos
    /\ procs' = [procs EXCEPT ![p].pc = "done", ![p].status = 200]
    /\ UNCHANGED <<videoLabels, videoLabelAssignments, comments, spaceVideos,
                   sharedVideos, cleanup, req, rerun, batch>>

\* The response has left.
WriteEnd(p) ==
    /\ WriteAt(p, "done")
    /\ procs' = [q \in DOMAIN procs \ {p} |-> procs[q]]
    /\ UNCHANGED <<tables, cleanup, req, rerun, batch>>

\* Video v1 carries the 14-day label, assigned by an earlier classification
\* that left expiresAt at createdAt + 14; in the second start it carries the
\* 30-day label as well.
ExpiringAssignments ==
    { {AssignmentRow("v1", "l1", "u1", TRUE, Some(9000))},
      {AssignmentRow("v1", "l1", "u1", TRUE, Some(9000)),
       AssignmentRow("v1", "l2", "u1", FALSE, Null)} }

InitCleanupRace ==
    /\ videoLabelAssignments \in ExpiringAssignments
    /\ videos = updateVideoExpiration(InitialVideos, SeededLabels,
                                      videoLabelAssignments, "v1")
    /\ videoLabels = SeededLabels
    /\ comments = [v \in VideoIds |-> MaxRows]
    /\ spaceVideos = [v \in VideoIds |-> MaxRows]
    /\ sharedVideos = [v \in VideoIds |-> MaxRows]
    /\ cleanup = CleanupIdle
    /\ req = NoRequest
    /\ rerun = NoRerun
    /\ batch = BatchIdle
    /\ procs = NoProcs

WriteBodies == {<<>>, <<"l2">>, <<"l1", "l3">>, <<"l2", "l2">>}

\* The asset store answers every call, with no object or with one.
RaceAssetReplies == {r \in AssetStoreReplies : r.list = "ok" /\ r.delete = "ok"}

NextCleanupRace ==
    \/ \E p \in Writers, user \in Users, videoId \in VideoIds, labelIds \in WriteBodies,
          keepPermanently \in KeepParams :
          WriteStart(p, user, videoId, labelIds, keepPermanently)
    \/ \E p \in Writers : WriteDelete(p)
    \/ \E p \in Writers : WriteInsert(p)
    \/ \E p \in Writers : WriteKeep(p)
    \/ \E p \in Writers : WriteSelectVideo(p)
    \/ \E p \in Writers : WriteSelectLabels(p)
    \/ \E p \in Writers : WriteUpdate(p)
    \/ \E p \in Writers : WriteEnd(p)
    \/ \E now \in ClockReadings, order \in SeqsUpTo(VideoIds, Cardinality(VideoIds)) :
          CleanupStart(now, order)
    \/ \E reply \in RaceAssetReplies : CleanupFiles(reply)
    \/ CleanupComments(TRUE)
    \/ CleanupLabelAssignments(TRUE)
    \/ CleanupSpaceVideos(TRUE)
    \/ CleanupSharedVideos(TRUE)
    \/ CleanupVideo(TRUE)
    \/ CleanupReturn

SpecCleanupRace == InitCleanupRace /\ [][NextCleanupRace]_vars

----------------------------------------------------------------------------
(* Properties of the retention calculator and its callers *)

\* The request served last was a label write on video v that completed:
\* a POST answered 200, or an autoAssignLabels call that returned.
Recomputed(v) ==
    \/ req.op = "POST" /\ req.videoId = v /\ req.status = 200
    \/ req.op = "autoAssignLabels" /\ req.videoId = v /\ ~req.threw

Assigned(v) == AssignedLabels(videoLabels, videoLabelAssignments, v)

LabelNamed(name) == CHOOSE l \in videoLabels : l.name = name

\* C1: between requests the stored expiresAt of every video equals the
\* retention calculator applied to its keepPermanently flag, the labels now
\* assigned to it and its createdAt, whatever the requests answered.
C1_ExpiresAtIsCalculated ==
    \A v \in DOMAIN videos :
        videos[v].expiresAt = computeExpiresAt(videos[v], Assigned(v))

\* C2: with keepPermanently set the calculator yields no expiration for
\* every set of labels, and the expiresAt stored by a completed label write
\* on such a video is NULL.
C2_KeepPermanentlyNeverExpires ==
    /\ \A v \in DOMAIN videos : \A L \in SUBSET videoLabels :
          computeExpiresAt([videos[v] EXCEPT !.keepPermanently = TRUE], L) = Null
    /\ \A v \in DOMAIN videos :
          Recomputed(v) /\ videos[v].keepPermanently => videos[v].expiresAt = Null

\* C2 witness: a completed write on a video kept permanently that carries
\* the label with the shortest retention.
C2_Witness ==
    /\ "v1" \in DOMAIN videos
    /\ Recomputed("v1")
    /\ videos["v1"].keepPermanently
    /\ LabelNamed("TROUBLESHOOTING") \in Assigned("v1")
    /\ videos["v1"].expiresAt = Null

\* C3: after a completed label write on a video not kept permanently, the
\* stored expiresAt is createdAt plus the least non-null retentionDays of
\* its labels, and NULL when there is no such value; labels of 14 days and
\* of no retention on a video created on 2024-01-01 (day 19723) give
\* 2024-01-15 (day 19737).
C3_ShortestRetentionWins ==
    /\ \A v \in DOMAIN videos :
          Recomputed(v) /\ ~videos[v].keepPermanently =>
              LET days == {Get(l.retentionDays) :
                              l \in {x \in Assigned(v) : x.retentionDays # Null}}
              IN IF days = {} THEN videos[v].expiresAt = Null
                 ELSE \E m \in days :
                         /\ \A d \in days : m <= d
                         /\ videos[v].expiresAt = Some(videos[v].createdAt + m)
    /\ computeExpiresAt(NewVideo("u1", "org1", 19723),
                        {LabelNamed("TROUBLESHOOTING"), LabelNamed("TECH")}) = Some(19737)

\* C3 witness: a completed write leaves a video with labels of 14 days, of
\* 30 days and of no retention, expiring 14 days after its creation.
C3_Witness ==
    /\ "v1" \in DOMAIN videos
    /\ Recomputed("v1")
    /\ ~videos["v1"].keepPermanently
    /\ Assigned("v1") = videoLabels
    /\ videos["v1"].expiresAt = Some(videos["v1"].createdAt + 14)

----------------------------------------------------------------------------
(* Properties of the cleanup job *)

Running == cleanup.pc # "idle"

CandidateIds == {cleanup.expiredVideos[k].id : k \in 1..Len(cleanup.expiredVideos)}

AssignmentsOf(assignments, v) == {a \in assignments : a.videoId = v}

\* Video v and its dependent rows are as they were when the run started.
Untouched(v) ==
    /\ v \in DOMAIN videos
    /\ videos[v] = cleanup.pre.videos[v]
    /\ AssignmentsOf(videoLabelAssignments, v) = AssignmentsOf(cleanup.pre.assignments, v)
    /\ comments[v] = cleanup.pre.comments[v]
    /\ spaceVideos[v] = cleanup.pre.spaceVideos[v]
    /\ sharedVideos[v] = cleanup.pre.sharedVideos[v]

NoDependents(v) ==
    /\ comments[v] = 0
    /\ AssignmentsOf(videoLabelAssignments, v) = {}
    /\ spaceVideos[v] = 0
    /\ sharedVideos[v] = 0

\* C4: a run selects only videos that, when it started, had a non-null
\* expiresAt not later than the run's clock reading and keepPermanently
\* false; every other video and its rows stay as they were.
C4_SelectsOnlyExpired ==
    Running =>
        /\ \A v \in CandidateIds :
              /\ v \in DOMAIN cleanup.pre.videos
              /\ cleanup.pre.videos[v].expiresAt # Null
              /\ Get(cleanup.pre.videos[v].expiresAt) <= cleanup.now
              /\ ~cleanup.pre.videos[v].keepPermanently
        /\ \A v \in DOMAIN cleanup.pre.videos \ CandidateIds : Untouched(v)

\* C4 witness: a run has deleted one video and has left alone another one
\* that is kept permanently although its stored expiresAt has passed.
C4_Witness ==
    /\ Running
    /\ cleanup.result.deleted = 1
    /\ \E v \in DOMAIN videos \ CandidateIds :
          /\ videos[v].keepPermanently
          /\ videos[v].expiresAt # Null
          /\ Get(videos[v].expiresAt) <= cleanup.now

\* C5: for the candidate being deleted each delete runs only after the
\* deletes before it: comments, label assignments, space shares, direct
\* shares, video row; the tables of the later steps are still as they were,
\* and a video row deleted by the run leaves no dependent row behind.
\* (Requests are served one at a time here.)
C5_DeletionOrder ==
    Running =>
        /\ cleanup.pc \in {"comments", "labels", "spaces", "shared", "video"} =>
              /\ Current \in DOMAIN videos
              /\ videos[Current] = cleanup.pre.videos[Current]
        /\ cleanup.pc = "comments" => Untouched(Current)
        /\ cleanup.pc \in {"labels", "spaces", "shared", "video"} => comments[Current] = 0
        /\ cleanup.pc = "labels" =>
              /\ AssignmentsOf(videoLabelAssignments, Current) =
                    AssignmentsOf(cleanup.pre.assignments, Current)
              /\ spaceVideos[Current] = cleanup.pre.spaceVideos[Current]
              /\ sharedVideos[Current] = cleanup.pre.sharedVideos[Current]
        /\ cleanup.pc \in {"spaces", "shared", "video"} =>
              AssignmentsOf(videoLabelAssignments, Current) = {}
        /\ cleanup.pc = "spaces" =>
              /\ spaceVideos[Current] = cleanup.pre.spaceVideos[Current]
              /\ sharedVideos[Current] = cleanup.pre.sharedVideos[Current]
        /\ cleanup.pc \in {"shared", "video"} => spaceVideos[Current] = 0
        /\ cleanup.pc = "shared" => sharedVideos[Current] = cleanup.pre.sharedVideos[Current]
        /\ cleanup.pc = "video" => sharedVideos[Current] = 0
        /\ \A v \in DOMAIN cleanup.pre.videos \ DOMAIN videos : NoDependents(v)

\* C5 witness: the run is about to delete the row of a video that had rows
\* of all four kinds when the run started.
C5_Witness ==
    /\ Running
    /\ cleanup.pc = "video"
    /\ cleanup.pre.comments[Current] > 0
    /\ AssignmentsOf(cleanup.pre.assignments, Current) # {}
    /\ cleanup.pre.spaceVideos[Current] > 0
    /\ cleanup.pre.sharedVideos[Current] > 0

Processed == IF cleanup.pc = "done" THEN Len(cleanup.expiredVideos) ELSE cleanup.i - 1

\* C6: the report holds one entry per candidate processed so far, in the
\* order of the candidates, with status deleted or error (and a message);
\* deleted + errors is the number of entries and deleted counts the
\* entries with status deleted.  A run that returns has processed every
\* candidate, whatever failed on the way.
C6_OneEntryPerCandidate ==
    Running =>
        LET d == cleanup.result.details
        IN /\ cleanup.pc = "done" => cleanup.i = Len(cleanup.expiredVideos) + 1
           /\ Len(d) = Processed
           /\ \A k \in 1..Len(d) :
                 /\ d[k].videoId = cleanup.expiredVideos[k].id
                 /\ d[k].status \in {"deleted", "error"}
                 /\ d[k].status = "error" => d[k].error \in {"datastore", "asset store"}
           /\ cleanup.result.deleted + cleanup.result.errors = Len(d)
           /\ cleanup.result.deleted =
                 Cardinality({k \in 1..Len(d) : d[k].status = "deleted"})

\* C6 witness: a run that returns reports an error for its first candidate
\* and has deleted its second.
C6_Witness ==
    /\ cleanup.pc = "done"
    /\ Len(cleanup.result.details) = 2
    /\ cleanup.result.details[1].status = "error"
    /\ cleanup.result.details[2].status = "deleted"
    /\ cleanup.result.details[2].videoId \notin DOMAIN videos

\* C7: a video the report marks error, and all its dependent rows, are as
\* they were before the run.
C7_ErrorLeavesVideoUntouched ==
    Running =>
        \A k \in 1..Len(cleanup.result.details) :
            cleanup.result.details[k].status = "error" =>
                Untouched(cleanup.result.details[k].videoId)

\* C8: deleteVideoFiles never raises: whatever the asset store answers, the
\* run goes on to the deletes of the rows, an error entry never stems from
\* the asset store, a video reported deleted has no row left, and no
\* bulk-delete request is sent for an empty listing.
C8_AssetStoreFailureNotFatal ==
    Running =>
        /\ \A k \in 1..Len(cleanup.result.details) :
              /\ cleanup.result.details[k].status = "error" =>
                    cleanup.result.details[k].error = "datastore"
              /\ cleanup.result.details[k].status = "deleted" =>
                    cleanup.result.details[k].videoId \notin DOMAIN videos
        /\ cleanup.files # NoFiles =>
              /\ ~cleanup.files.threw
              /\ cleanup.files.listed = 0 => cleanup.files.deleteRequests = 0
        /\ cleanup.pc \in {"comments", "labels", "spaces", "shared", "video"} =>
              cleanup.files.videoId = Current

\* C8 witness: the asset store failed for the candidate processed last, and
\* the video is reported deleted and is gone.
C8_Witness ==
    /\ Running
    /\ cleanup.pc \in {"files", "done"}
    /\ cleanup.result.details # <<>>
    /\ LET last == cleanup.result.details[Len(cleanup.result.details)]
       IN /\ cleanup.files # NoFiles
          /\ cleanup.files.videoId = last.videoId
          /\ cleanup.files.caught
          /\ last.status = "deleted"
          /\ last.videoId \notin DOMAIN videos

\* C9: a run never selects or reports a video that was gone when it
\* started, the rows left by an earlier run that stopped midway do not make
\* it fail, and a run that returns without an error leaves no video with
\* expiresAt <= its clock reading and keepPermanently false.
C9_RerunCompletesDeletion ==
    Running =>
        /\ CandidateIds \subseteq DOMAIN cleanup.pre.videos
        /\ \A k \in 1..Len(cleanup.result.details) :
              cleanup.result.details[k].videoId \in DOMAIN cleanup.pre.videos
        /\ cleanup.pc = "done" /\ cleanup.result.errors = 0 =>
              \A v \in DOMAIN videos :
                  \/ videos[v].expiresAt = Null
                  \/ Get(videos[v].expiresAt) > cleanup.now
                  \/ videos[v].keepPermanently

\* C9 witness: a run returns without an error after deleting a video whose
\* comments an earlier run had already deleted, while another video was
\* already gone when it started.
C9_Witness ==
    /\ cleanup.pc = "done"
    /\ cleanup.result.errors = 0
    /\ cleanup.result.deleted = 1
    /\ DOMAIN cleanup.pre.videos # VideoIds
    /\ cleanup.pre.comments[cleanup.result.details[1].videoId] = 0
    /\ cleanup.result.details[1].videoId \notin DOMAIN videos

----------------------------------------------------------------------------
(* Properties of the auto-assigner *)

SuggestedLabelNames(suggestions) == [k \in 1..Len(suggestions) |-> suggestions[k].labelName]

\* C10: a second autoAssignLabels call in succession, for the same video,
\* organization and classification result, returns an empty assigned list
\* and every suggestion name in skipped, and leaves the assignments the
\* first call left.
C10_AutoAssignIdempotent ==
    rerun.op = "second" =>
        /\ ~req.threw
        /\ req.assigned = <<>>
        /\ req.skipped = SuggestedLabelNames(rerun.suggestions)
        /\ videoLabelAssignments = rerun.assignments

\* C10 witness: the first call assigned two labels, the second has returned.
C10_Witness ==
    /\ rerun.op = "second"
    /\ Len(rerun.assigned) = 2
    /\ req.assigned = <<>>

\* The request served last was an autoAssignLabels call that returned.
Traced == req.op = "autoAssign" /\ ~req.threw

\* The rows the call inserted.
Inserted == videoLabelAssignments \ req.before

Count(seq, x) == Cardinality({k \in 1..Len(seq) : seq[k] = x})

\* The active labels of the video's organization that carry the name.
Resolves(name) ==
    {l \in videoLabels :
        l.organizationId = req.videoBefore.orgId /\ l.isActive /\ l.name = name}

AssignedBefore(l) ==
    \E a \in req.before : a.videoId = req.videoId /\ a.labelId = l.id

\* C11: the cutoff is 0.75, inclusive: a suggestion of confidence >= 0.75
\* whose name resolves to an active label not yet assigned to the video is
\* assigned; a suggestion below 0.75 (0.7499) leaves no row and its name is
\* in skipped.
C11_CutoffInclusive ==
    Traced =>
        /\ \A a \in Inserted : a.isAiSuggested /\ Get(a.aiConfidence) >= 7500
        /\ \A k \in 1..Len(req.suggestions) :
              LET s == req.suggestions[k]
              IN /\ s.confidence < 7500 => s.labelName \in Range(req.skipped)
                 /\ s.confidence >= 7500 =>
                       \A l \in Resolves(s.labelName) :
                           ~AssignedBefore(l) =>
                               /\ s.labelName \in Range(req.assigned)
                               /\ \E a \in Inserted :
                                     a.videoId = req.videoId /\ a.labelId = l.id

\* C11 witness: of two suggestions of the same label the one at 0.7499 was
\* skipped and the one at 0.75 assigned.
C11_Witness ==
    /\ Traced
    /\ req.suggestions = <<[labelName |-> "TROUBLESHOOTING", confidence |-> 7499],
                           [labelName |-> "TROUBLESHOOTING", confidence |-> 7500]>>
    /\ req.skipped = <<"TROUBLESHOOTING">>
    /\ req.assigned = <<"TROUBLESHOOTING">>
    /\ \E a \in Inserted : a.aiConfidence = Some(7500)

\* A name that is unknown, of another organization only, or of an inactive
\* label is never assigned and is in skipped; the rows inserted are for
\* active labels of the video's organization.
UnresolvedAreSkipped ==
    /\ \A a \in Inserted :
          \E l \in videoLabels :
              /\ l.id = a.labelId
              /\ l.organizationId = req.videoBefore.orgId
              /\ l.isActive
    /\ \A k \in 1..Len(req.suggestions) :
          LET s == req.suggestions[k]
          IN Resolves(s.labelName) = {} =>
                /\ s.labelName \notin Range(req.assigned)
                /\ s.labelName \in Range(req.skipped)

\* C12 as stated: unresolved names are skipped, and every suggestion name
\* is in exactly one of the lists assigned and skipped.
C12_EveryNameInOneList ==
    Traced =>
        /\ UnresolvedAreSkipped
        /\ \A k \in 1..Len(req.suggestions) :
              LET name == req.suggestions[k].labelName
              IN (name \in Range(req.assigned)) # (name \in Range(req.skipped))

\* C12 as amended: unresolved names are skipped, and every suggestion is
\* recorded exactly once: a name occurs in assigned and skipped together as
\* often as it is suggested, and at most once in assigned.
C12_EverySuggestionRecordedOnce ==
    Traced =>
        /\ UnresolvedAreSkipped
        /\ Len(req.assigned) + Len(req.skipped) = Len(req.suggestions)
        /\ \A k \in 1..Len(req.suggestions) :
              LET name == req.suggestions[k].labelName
              IN /\ Count(req.assigned, name) + Count(req.skipped, name) =
                       Count(SuggestedLabelNames(req.suggestions), name)
                 /\ Count(req.assigned, name) <= 1

\* C12 witness: a label of the organization was assigned and the name of
\* another organization's label skipped.
C12_Witness ==
    /\ Traced
    /\ req.suggestions = <<[labelName |-> "TECH", confidence |-> 9000],
                           [labelName |-> "SALES", confidence |-> 9000]>>
    /\ req.assigned = <<"TECH">>
    /\ req.skipped = <<"SALES">>

\* C13: the call leaves every row it found as it was, holds one row per
\* (video, label) pair, and reports in skipped, not in assigned, a suggested
\* label the video already had.
C13_ExistingAssignmentKept ==
    Traced =>
        /\ req.before \subseteq videoLabelAssignments
        /\ \A a, b \in videoLabelAssignments :
              a.videoId = b.videoId /\ a.labelId = b.labelId => a = b
        /\ \A k \in 1..Len(req.suggestions) :
              LET s == req.suggestions[k]
              IN s.confidence >= 7500 =>
                    \A l \in Resolves(s.labelName) :
                        AssignedBefore(l) =>
                            /\ s.labelName \in Range(req.skipped)
                            /\ s.labelName \notin Range(req.assigned)

\* C13 witness: the label suggested at 0.75 had been assigned by a user,
\* and the row still says so.
C13_Witness ==
    /\ Traced
    /\ req.suggestions = <<[labelName |-> "TROUBLESHOOTING", confidence |-> 7500]>>
    /\ req.skipped = <<"TROUBLESHOOTING">>
    /\ \E a \in videoLabelAssignments :
          /\ a.videoId = req.videoId
          /\ a.labelId = "l1"
          /\ ~a.isAiSuggested
          /\ a.aiConfidence = Null
          /\ a.assignedById = "u1"

\* C14: when the call returns, the stored expiresAt of the video is the
\* retention calculator's value for its flag, labels and createdAt, also
\* when nothing was suggested or everything skipped.
C14_AlwaysRecomputes ==
    Traced =>
        /\ req.videoId \in DOMAIN videos
        /\ videos[req.videoId].expiresAt =
              computeExpiresAt(videos[req.videoId], Assigned(req.videoId))

\* C14 witness: a call with no suggestions found a video without labels
\* and with an expiration, and left it without one.
C14_Witness ==
    /\ Traced
    /\ req.suggestions = <<>>
    /\ ~req.videoBefore.keepPermanently
    /\ req.videoBefore.expiresAt # Null
    /\ AssignmentsOf(req.before, req.videoId) = {}
    /\ videos[req.videoId].expiresAt = Null

\* C15: when calls for the same video race on a label, one row for the
\* pair is stored, and the call whose insert met the duplicate key does not
\* raise: it goes on with its remaining suggestions and recomputes expiresAt
\* before it returns.
C15_LoserContinues ==
    /\ \A a, b \in videoLabelAssignments :
          a.videoId = b.videoId /\ a.labelId = b.labelId => a = b
    /\ \A p \in DOMAIN procs :
          procs[p].op = "autoAssignLabels" /\ procs[p].violated =>
              /\ procs[p].pc # "threw"
              /\ procs[p].pc = "done" =>
                    /\ procs[p].recomputed
                    /\ Len(procs[p].assigned) + Len(procs[p].skipped) =
                          Len(procs[p].suggestions)

----------------------------------------------------------------------------
(* Properties of the label catalog *)

\* The names of the fixed system vocabulary.
VocabularyNames ==
    {SYSTEM_LABELS.content_type[k].name : k \in 1..Len(SYSTEM_LABELS.content_type)}
    \cup {SYSTEM_LABELS.department[k].name : k \in 1..Len(SYSTEM_LABELS.department)}

\* The organization's catalog holds every name of the vocabulary once.
FullySeeded(labels, organizationId) ==
    \A name \in VocabularyNames :
        Cardinality({l \in labels : l.organizationId = organizationId /\ l.name = name}) = 1

\* C19: a seedSystemLabels call for an organization that has an active
\* system label returns and changes nothing; any other call that returns
\* leaves the 9 content-type and 8 department labels in the organization's
\* catalog, each once, and the other rows as they were; after a call that
\* returned, the organization has a system label, so that the calls that
\* follow change nothing.
C19_SeedIdempotent ==
    req.op = "seedSystemLabels" =>
        LET seeded == {l \in req.before : l.organizationId = req.organizationId
                                          /\ l.isSystem /\ l.isActive}
        IN /\ Cardinality(VocabularyNames) = 17
           /\ seeded # {} => ~req.threw /\ videoLabels = req.before
           /\ seeded = {} /\ ~req.threw =>
                 /\ FullySeeded(videoLabels, req.organizationId)
                 /\ req.before \subseteq videoLabels
                 /\ \A l \in videoLabels \ req.before :
                       l.organizationId = req.organizationId /\ l.isSystem /\ l.isActive
           /\ ~req.threw =>
                 seedSystemLabels(videoLabels, req.organizationId, 0).labels = videoLabels

\* C19 witness: a call on a seeded organization has returned, the catalog
\* as the seeding call left it.
C19_Witness ==
    /\ req.op = "seedSystemLabels"
    /\ ~req.threw
    /\ FullySeeded(req.before, req.organizationId)
    /\ videoLabels = req.before
    /\ Cardinality({l \in videoLabels : l.organizationId = req.organizationId}) = 18

\* C20: of the seedSystemLabels calls under way together for an unseeded
\* organization none raises, and when all have ended the organization
\* holds the full vocabulary, each name once.
C20_ConcurrentSeedSucceeds ==
    /\ \A p \in DOMAIN procs :
          procs[p].op = "seedSystemLabels" => procs[p].pc # "threw"
    /\ (/\ procs # NoProcs
        /\ \A p \in DOMAIN procs :
              procs[p].op = "seedSystemLabels" /\ procs[p].pc = "done") =>
          \A p \in DOMAIN procs : FullySeeded(videoLabels, procs[p].organizationId)

----------------------------------------------------------------------------
(* Properties of the classifier and its callers *)

\* The classification calls on record: the request served last, and the
\* entries of the batch under way.
ClassifyTraces ==
    (IF req.op = "classify" THEN {req} ELSE {})
    \cup (IF batch.pc # "idle" THEN Range(batch.result.details) ELSE {})

\* The content is not one JSON object, fences apart.
Unparsable(content) ==
    /\ content # <<>>
    /\ LET rest == {k \in 1..Len(content) : content[k].t # "fence"}
       IN \/ Cardinality(rest) # 1
          \/ \E k \in rest : content[k].t # "object"

\* C16: a classification that returns a failure leaves the video's
\* aiSuggestedLabels, aiClassifiedAt, ragStatus and transcriptionStatus as
\* they were.
C16_FailureLeavesVideo ==
    \A e \in ClassifyTraces :
        e.classifier = "returned" /\ ~e.classification.success =>
            /\ e.videoId \in DOMAIN videos
            /\ LET before == Get(e.videoBefore)
                   after == videos[e.videoId]
               IN /\ after.aiSuggestedLabels = before.aiSuggestedLabels
                  /\ after.aiClassifiedAt = before.aiClassifiedAt
                  /\ after.ragStatus = before.ragStatus
                  /\ after.transcriptionStatus = before.transcriptionStatus

\* C17: classifyVideoLabels returns whatever happens; without a key it
\* fails without calling the oracle; a network failure, an error status, an
\* unparsable content and a rejected write-back each give a failure; and
\* every failure has no labels and ragEligibility pending.
C17_ClassifyNeverRaises ==
    \A e \in ClassifyTraces :
        e.classifier # "not called" =>
            /\ e.classifier = "returned"
            /\ ~e.env.configured => ~e.classification.success /\ ~e.oracleCalled
            /\ e.env.configured => e.oracleCalled
            /\ e.env.configured /\ e.env.reply.kind \in {"network", "status"} =>
                  ~e.classification.success
            /\ e.env.configured /\ e.env.reply.kind = "ok"
                  /\ Unparsable(e.env.reply.content) => ~e.classification.success
            /\ e.env.configured /\ e.env.reply.kind = "ok" /\ ~e.env.writeOk =>
                  ~e.classification.success
            /\ ~e.classification.success =>
                  /\ e.classification.labels = <<>>
                  /\ e.classification.ragEligibility = "pending"

\* C17 witness: the oracle answered a well-formed object, the datastore
\* rejected the write-back, and the call returned a failure.
C17_Witness ==
    \E e \in ClassifyTraces :
        /\ e.classifier = "returned"
        /\ e.env.configured
        /\ e.env.reply = [kind |-> "ok", content |-> <<Troubleshooting>>]
        /\ ~e.env.writeOk
        /\ ~e.classification.success

\* C18: in a classify request and in every turn of the admin batch the
\* classifier is called only for a video whose transcriptionStatus is
\* COMPLETE, autoAssignLabels only after the classifier returned a success,
\* and expiresAt changes only in a call of autoAssignLabels that has gone
\* through all the suggestions, which then leaves the calculator's value.
C18_PipelineOrder ==
    \A e \in ClassifyTraces :
        /\ e.classifier # "not called" =>
              /\ e.videoBefore # Null
              /\ Get(e.videoBefore).transcriptionStatus = Some("COMPLETE")
        /\ e.assignCalled => e.classifier = "returned" /\ e.classification.success
        /\ e.assignReturned =>
              /\ e.assignCalled
              /\ Len(e.assigned) + Len(e.skipped) = Len(e.classification.labels)
              /\ e.videoId \in DOMAIN videos
              /\ videos[e.videoId].expiresAt =
                    computeExpiresAt(videos[e.videoId], Assigned(e.videoId))
        /\ e.videoBefore # Null /\ ~e.assignReturned =>
              /\ e.videoId \in DOMAIN videos
              /\ videos[e.videoId].expiresAt = Get(e.videoBefore).expiresAt

\* C18 witness: a batch whose first video failed to classify and was left
\* without assignment, and whose second was classified, assigned a label
\* and given an expiration.
C18_Witness ==
    /\ batch.pc = "done"
    /\ Len(batch.result.details) = 2
    /\ LET first == batch.result.details[1]
           second == batch.result.details[2]
       IN /\ first.status = "error"
          /\ first.classifier = "returned"
          /\ ~first.assignCalled
          /\ second.status = "classified"
          /\ second.assignReturned
          /\ second.assigned # <<>>
          /\ videos[second.videoId].expiresAt # Null

----------------------------------------------------------------------------
(* Properties of the admin batch *)

\* C29: a classifyAllVideos call with dryRun = true writes nothing.  While
\* the call is under way and when it returns, the videos (aiSuggestedLabels,
\* aiClassifiedAt, ragStatus, expiresAt and every other column), the catalog
\* and the assignments are the ones the call found, and for none of its
\* rows was the catalog seeded, the classifier or the oracle called, or
\* autoAssignLabels called.
C29_DryRunWritesNothing ==
    (batch.pc # "idle" /\ batch.dryRun) =>
        /\ videos = batch.pre.videos
        /\ videoLabels = batch.pre.labels
        /\ videoLabelAssignments = batch.pre.assignments
        /\ \A k \in 1..Len(batch.result.details) :
              LET entry == batch.result.details[k]
              IN /\ entry.status = "classified"
                 /\ entry.classifier = "not called"
                 /\ ~entry.oracleCalled
                 /\ ~entry.assignCalled

\* A dry run has gone through two candidates of an organization whose
\* catalog is not seeded, in an environment in which a real run classifies.
C29_Witness ==
    /\ batch.pc = "done"
    /\ batch.dryRun
    /\ Len(batch.result.details) = 2
    /\ videoLabels = {}
    /\ \E k \in 1..2 :
          LET env == batch.result.details[k].env
          IN /\ env.configured /\ env.writeOk
             /\ env.transcription = Readable
             /\ env.reply = [kind |-> "ok", content |-> <<Troubleshooting>>]

----------------------------------------------------------------------------
(* Properties of the labels API *)

DuplicateName == "A label with this name already exists"

\* The catalog has no two rows of one organization with one name.
UniqueNames(labels) ==
    \A a, b \in labels : (a.organizationId = b.organizationId /\ a.name = b.name) => a = b

\* C21 (as stated): a label's (organizationId, name) pair is unique at every
\* state; a creation of a name the organization already has inserts nothing
\* and answers the duplicate-name error; and of the creations of one name
\* in one organization under way together, every one that does not succeed
\* answers the duplicate-name error, never a generic failure.
C21_DuplicateNameError ==
    /\ UniqueNames(videoLabels)
    /\ \A p \in DOMAIN procs :
          (procs[p].op = "POST labels" /\ procs[p].pc = "done") =>
              LET c == procs[p]
                  taken == /\ c.session # Null
                           /\ Get(c.session).activeOrganizationId # Null
                           /\ c.body.displayName # ""
                           /\ ValidName(c.body.name)
                           /\ c.status # 200
              IN taken => (c.status = 400 /\ c.error = DuplicateName)

\* The characters of a name that is an uppercase letter followed by
\* uppercase letters, digits or underscores.
RECURSIVE UpperSnakeTail(_)
UpperSnakeTail(chars) ==
    chars = <<>> \/ (Head(chars) \in Upper \cup Digit \cup {"_"} /\ UpperSnakeTail(Tail(chars)))

UpperSnake(chars) ==
    chars # <<>> /\ Head(chars) \in Upper /\ UpperSnakeTail(Tail(chars))

NameRejected ==
    /\ req.status = 400
    /\ req.error \in {"Name and displayName are required",
                       "Name must be uppercase letters, numbers, and underscores only"}

\* C22: a POST /api/labels of a user with an organization, with a
\* displayName, is rejected for its name exactly when the name does not
\* match ^[A-Z][A-Z0-9_]*$ (TUTORIAL passes; tutorial, 123X and
\* 'TU TORIAL' are rejected); a rejected request leaves the catalog as it
\* was and starts no promotion task.
C22_NameFormat ==
    (/\ req.op = "POST labels"
     /\ req.session # Null
     /\ Get(req.session).activeOrganizationId # Null
     /\ req.body.displayName # "") =>
        /\ NameRejected <=> ~UpperSnake(req.body.name)
        /\ Text(req.body.name) = "TUTORIAL" => ~NameRejected
        /\ Text(req.body.name) \in {"tutorial", "123X", "TU TORIAL"} => NameRejected
        /\ NameRejected =>
              /\ videoLabels = req.before
              /\ req.created = Null
              /\ DOMAIN procs = req.tasksBefore

\* 'TU TORIAL' has just been rejected.
C22_Witness ==
    /\ req.op = "POST labels"
    /\ Text(req.body.name) = "TU TORIAL"
    /\ req.status = 400
    /\ req.error = "Name must be uppercase letters, numbers, and underscores only"

\* C23: a GET /api/labels answered 200 lists exactly the labels of the
\* user's organization with isActive true, each once, by category and
\* within a category by displayName; no label of another organization and
\* no inactive label is listed.
C23_ListActiveLabels ==
    (req.op = "GET labels" /\ req.status = 200) =>
        LET org == Get(Get(req.session).activeOrganizationId)
            listing == req.labels
        IN /\ Range(listing) = {l \in videoLabels : l.organizationId = org /\ l.isActive}
           /\ \A i, j \in 1..Len(listing) : i < j =>
                 /\ listing[i] # listing[j]
                 /\ Weight(listing[i].category) <= Weight(listing[j].category)
                 /\ listing[i].category = listing[j].category =>
                       Weight(listing[i].displayName) <= Weight(listing[j].displayName)

\* A listing for an organization that has an inactive label, beside the
\* labels of another organization, with a label of a user among the seeded.
C23_Witness ==
    /\ req.op = "GET labels" /\ req.status = 200
    /\ LET org == Get(Get(req.session).activeOrganizationId)
       IN /\ \E l \in videoLabels : l.organizationId = org /\ ~l.isActive
          /\ \E l \in videoLabels : l.organizationId # org
          /\ \E k \in 1..Len(req.labels) : ~req.labels[k].isSystem
          /\ \E k \in 1..Len(req.labels) : req.labels[k].isSystem

----------------------------------------------------------------------------
(* Properties of the promotion *)

\* The promotion tasks whose promoteLabelToSystem call has ended.
Promoted == {t \in DOMAIN procs : procs[t].op = "promotion" /\ procs[t].promotion # Null}

\* The organization's labels of the name.
Named(labels, organizationId, name) ==
    {l \in labels : l.organizationId = organizationId /\ l.name = name}

\* The name is a system label somewhere.
SystemName(labels, name) == \E l \in labels : l.isSystem /\ l.name = name

\* The organizations with a system label.
Eligible(labels) == {l.organizationId : l \in {x \in labels : x.isSystem}}

\* C24: a promoteLabelToSystem call that finds a system label of the
\* evaluation's name in any organization returns promoted false and inserts
\* no row in any organization, whichever organization the custom label is of.
C24_AlreadySystemLabel ==
    \A t \in Promoted :
        LET c == procs[t]
            e == Get(c.evaluation)
        IN (e.englishName # Null /\ SystemName(c.before, Get(e.englishName))) =>
              /\ ~Get(c.promotion).promoted
              /\ ~Get(c.promotion).threw
              /\ c.after = c.before

\* A label of an organization never seeded was evaluated under the name of
\* a system label of other organizations, and not promoted.
C24_Witness ==
    \E t \in Promoted :
        LET c == procs[t]
            e == Get(c.evaluation)
        IN /\ e.shouldPromote /\ e.englishName # Null
           /\ SystemName(c.before, Get(e.englishName))
           /\ Named(c.before, c.label.organizationId, Get(e.englishName)) = {}
           /\ c.label.organizationId \notin Eligible(c.before)
           /\ ~Get(c.promotion).promoted

\* C25: when promoteLabelToSystem returns promoted true, every organization
\* that had a system label when the call began has exactly one label of the
\* promoted name: the row it had, unchanged, or else a new row with
\* isSystem and isActive true.
C25_FanOut ==
    \A t \in Promoted :
        LET c == procs[t]
            name == Get(Get(c.evaluation).englishName)
        IN Get(c.promotion).promoted =>
              \A org \in Eligible(c.before) :
                  /\ Cardinality(Named(c.after, org, name)) = 1
                  /\ Named(c.before, org, name) # {} =>
                        Named(c.after, org, name) = Named(c.before, org, name)
                  /\ Named(c.before, org, name) = {} =>
                        \A l \in Named(c.after, org, name) : l.isSystem /\ l.isActive

\* A promotion returned true over two seeded organizations, one of which
\* had a label of the name and one of which had none, beside an
\* organization without system labels.
C25_Witness ==
    \E t \in Promoted :
        LET c == procs[t]
            name == Get(Get(c.evaluation).englishName)
        IN /\ Get(c.promotion).promoted
           /\ \E org \in Eligible(c.before) : Named(c.before, org, name) # {}
           /\ \E org \in Eligible(c.before) : Named(c.before, org, name) = {}
           /\ \E l \in c.before : l.organizationId \notin Eligible(c.before)

\* The positions of the fan-out after the one whose insert failed.
After(orgs, failed) == {k \in 1..Len(orgs) : \E j \in 1..(k - 1) : orgs[j] = failed}

\* C26 (as stated): an insert of the fan-out that fails for one
\* organization does not end the fan-out: every organization later in the
\* iteration has the label when the call ends, and the call returns a
\* result, it does not raise.
C26_FanOutToleratesFailure ==
    \A t \in Promoted :
        LET c == procs[t]
            p == Get(c.promotion)
            name == Get(Get(c.evaluation).englishName)
        IN p.failed # Null =>
              /\ ~p.threw
              /\ \A k \in After(p.orgs, Get(p.failed)) : Named(c.after, p.orgs[k], name) # {}

\* C27 (as stated): promoteLabelToSystem can be run again after a partial
\* fan-out.  A call with an evaluation to promote, none of whose statements
\* fails, that begins when some organizations have the name as a system
\* label and other organizations with system labels have no label of the
\* name, leaves every organization with system labels with the label.
C27_RerunCompletes ==
    \A t \in Promoted :
        LET c == procs[t]
            e == Get(c.evaluation)
            p == Get(c.promotion)
        IN (/\ e.shouldPromote /\ e.englishName # Null /\ e.englishDisplayName # Null
            /\ p.failed = Null
            /\ SystemName(c.before, Get(e.englishName))
            /\ \E org \in Eligible(c.before) : Named(c.before, org, Get(e.englishName)) = {}) =>
              \A org \in Eligible(c.before) : Named(c.after, org, Get(e.englishName)) # {}

\* The content is not, once the fences are removed, one JSON object with
\* should_promote true.
NotInFavour(content) ==
    LET cleaned == SelectSeq(content, LAMBDA tok : tok.t # "fence")
    IN \/ Len(cleaned) # 1
       \/ cleaned[1].t # "object"
       \/ cleaned[1].should_promote # Some(TRUE)

\* C28: the creation of a custom label does not depend on its promotion.
\* For every task a POST started, the response was the success and the
\* created row is in the catalog as it was inserted; when the oracle is not
\* configured, fails, answers nothing, something unparsable or
\* should_promote other than true, the evaluation is shouldPromote false,
\* returned and not raised, and promoteLabelToSystem is not called; what
\* promoteLabelToSystem raises ends in the task's log line.
C28_CreationIndependentOfPromotion ==
    \A t \in DOMAIN procs :
        procs[t].op = "promotion" =>
            LET c == procs[t]
            IN /\ c.response = 200
               /\ c.label \in videoLabels
               /\ ~c.label.isSystem
               /\ c.oracle # Null =>
                     LET o == Get(c.oracle)
                         e == Get(c.evaluation)
                         declined ==
                             \/ ~o.configured
                             \/ o.reply.kind # "ok"
                             \/ NotInFavour(o.reply.content)
                     IN declined => (~e.shouldPromote /\ ~e.threw /\ c.pc = "logged"
                                     /\ c.promotion = Null)
               /\ (c.promotion # Null /\ Get(c.promotion).threw) =>
                     (c.pc = "logged" /\ c.caught)

\* A promotion raised in the middle of its fan-out, after a first insert;
\* the label of the user is where it was.
C28_Witness ==
    \E t \in Promoted :
        LET c == procs[t]
        IN /\ Get(c.promotion).threw
           /\ Get(c.promotion).inserted # <<>>
           /\ c.response = 200
           /\ c.label \in videoLabels

----------------------------------------------------------------------------
(* Properties of the cleanup with a label request under way *)

\* What the retention calculator yields for video v from the rows as they
\* are now.
CurrentExpiry(v) ==
    computeExpiresAt(videos[v], AssignedLabels(videoLabels, videoLabelAssignments, v))

\* The cleanup is at the first delete statement of its current candidate.
AboutToDelete == cleanup.pc = "comments" /\ Current \in DOMAIN videos

\* C30: when the cleanup deletes the rows of a video, the retention
\* calculator applied to the video's keepPermanently flag and assignments as
\* they are at that moment yields an instant, and one no later than the
\* run's clock reading.
C30_DeletesOnlyExpired ==
    AboutToDelete =>
        /\ CurrentExpiry(Current) # Null
        /\ Get(CurrentExpiry(Current)) <= cleanup.now

\* C31: a video whose keepPermanently flag is set when the cleanup comes to
\* delete its rows is not deleted, also when the flag was set by a request
\* after the run selected its candidates.
C31_KeptVideoSurvives ==
    AboutToDelete => ~videos[Current].keepPermanently

\* C32: no assignment row references a video that no longer exists, also
\* when a request for the video inserts an assignment after the cascade's
\* delete of the video's assignments.
C32_NoAssignmentOfDeletedVideo ==
    \A a \in videoLabelAssignments : a.videoId \in DOMAIN videos

----------------------------------------------------------------------------
(* Properties of POST /api/videos/[videoId]/labels *)

\* The step is a label request answered with the given class of status.
PostAnswered(statuses) == req.op = "none" /\ req'.op = "POST" /\ req'.status \in statuses

\* C33: a label request answered with an error leaves the video's
\* assignments, keepPermanently and expiresAt as they were before it.
C33_ErrorChangesNothing ==
    [][PostAnswered({403, 404, 500}) =>
          /\ videos' = videos
          /\ videoLabelAssignments' = videoLabelAssignments]_vars

LabelIdsOf(rows) == {a.labelId : a \in rows}

\* C34: a label request answered 200 leaves the video with exactly the
\* requested label ids assigned: the rows of labels not requested are gone,
\* each requested label that was not assigned has one new row with
\* isAiSuggested false and the requesting user as assignedById, the rows of
\* requested labels that were assigned are the rows they were, and
\* keepPermanently changes only when the request carries it.
C34_AssignedEqualsRequested ==
    \A user \in Users, videoId \in VideoIds, keepPermanently \in KeepParams :
      \A labelIds \in SeqsUpTo(LabelIds, MaxLabelIds) :
        LET r == POST(videos, videoLabels, videoLabelAssignments, user, videoId,
                      labelIds, keepPermanently, "none")
            before == AssignmentsOf(videoLabelAssignments, videoId)
            after == AssignmentsOf(r.assignments, videoId)
        IN r.status = 200 =>
            /\ LabelIdsOf(after) = Range(labelIds)
            /\ \A a, b \in after : a.labelId = b.labelId => a = b
            /\ \A a \in before : a.labelId \in Range(labelIds) => a \in after
            /\ \A a \in after \ before :
                  /\ a.labelId \notin LabelIdsOf(before)
                  /\ a = AssignmentRow(videoId, a.labelId, user, FALSE, Null)
            /\ r.assignments \ after = videoLabelAssignments \ before
            /\ r.videos[videoId].keepPermanently =
                  IF keepPermanently = Null THEN videos[videoId].keepPermanently
                  ELSE Get(keepPermanently)

\* C34 witness: a request answered 200 added a label and removed one, and
\* the video keeps a row assigned by the classifier beside the user's own.
C34_Witness ==
    /\ req.op = "POST" /\ req.status = 200 /\ req.added = 1 /\ req.removed = 1
    /\ \E a, b \in AssignmentsOf(videoLabelAssignments, req.videoId) :
          a.isAiSuggested /\ ~b.isAiSuggested

\* C35: every assignment links its video to a label of the catalog that
\* belongs to the video's organization, whatever label ids the requests
\* carried.
C35_AssignmentsOfOwnLabels ==
    \A a \in videoLabelAssignments :
        a.videoId \in DOMAIN videos =>
            \E l \in videoLabels :
                l.id = a.labelId /\ l.organizationId = videos[a.videoId].orgId

----------------------------------------------------------------------------
(* Properties of the stored retention *)

\* C36: every label of the catalog has retentionDays NULL or a positive
\* number of days, whatever retentionDays the requests carried.
C36_RetentionNullOrPositive ==
    \A l \in videoLabels : l.retentionDays = Null \/ Get(l.retentionDays) > 0

----------------------------------------------------------------------------
(* Properties of the suggestion list *)

\* The request just served parsed an object of the oracle.
Parsed ==
    /\ req.op = "classify"
    /\ req.classifier = "returned"
    /\ req.classification.success
    /\ Len(req.env.reply.content) = 1

OracleObject == req.env.reply.content[1]

\* The list the claim describes for an object: the primary with the
\* oracle's confidence, the secondary with 0.7 times it, the department
\* with its own confidence.
Described(data) ==
    (IF data.primary = Null THEN <<>>
     ELSE <<[labelName |-> Get(data.primary), confidence |-> Get(data.confidence)]>>)
    \o
    (IF data.secondary = Null THEN <<>>
     ELSE <<[labelName |-> Get(data.secondary),
             confidence |-> (Get(data.confidence) * 7) \div 10]>>)
    \o
    (IF data.label = Null THEN <<>>
     ELSE <<[labelName |-> Get(data.label),
             confidence |-> Get(data.departmentConfidence)]>>)

\* C37: for an object whose confidences are numbers of [0, 1], 0 included,
\* the suggestion list is the primary with the raw confidence, then the
\* secondary with 0.7 times it, then the department with its confidence,
\* and nothing else.
C37_SuggestionList ==
    /\ Parsed
    /\ OracleObject.primary # Null \/ OracleObject.secondary # Null
          => OracleObject.confidence # Null
    /\ OracleObject.label # Null => OracleObject.departmentConfidence # Null
    => req.classification.labels = Described(OracleObject)

\* The place of the secondary suggestion in the list: after the primary.
SecondaryAt == IF OracleObject.primary = Null THEN 1 ELSE 2

\* C38: when the oracle's confidence is in [0, 1], the secondary suggestion
\* has a confidence of at most 0.7, below the cutoff, and autoAssignLabels,
\* fed the classifier's result, records it in skipped: its label is not
\* assigned on its account.
C38_SecondaryNeverAssigned ==
    /\ Parsed
    /\ req.assignReturned
    /\ OracleObject.secondary # Null
    /\ OracleObject.confidence # Null => Get(OracleObject.confidence) \in 0..10000
    => LET suggestion == req.classification.labels[SecondaryAt]
           others == {req.classification.labels[k].labelName :
                         k \in (1..Len(req.classification.labels)) \ {SecondaryAt}}
       IN /\ suggestion.labelName = Get(OracleObject.secondary)
          /\ suggestion.confidence <= 7000
          /\ suggestion.confidence < ConfidenceCutoff
          /\ suggestion.labelName \in Range(req.skipped)
          /\ suggestion.labelName \notin others =>
                suggestion.labelName \notin Range(req.assigned)

\* C38 witness: the oracle is certain (confidence 1) of a primary and names
\* a secondary; the primary is assigned, the secondary skipped.
C38_Witness ==
    /\ Parsed
    /\ req.assignReturned
    /\ OracleObject.confidence = Some(10000)
    /\ OracleObject.primary = Some("TROUBLESHOOTING")
    /\ OracleObject.secondary = Some("MEETING_RECORDING")
    /\ req.assigned = <<"TROUBLESHOOTING">>
    /\ req.skipped = <<"MEETING_RECORDING">>

----------------------------------------------------------------------------
(* Properties of the admin batch *)

BatchRunning == batch.pc # "idle"

\* The entries of the run's report with the given status.
EntriesWith(status) ==
    {k \in 1..Len(batch.result.details) : batch.result.details[k].status = status}

\* The rows a run selected are unclassified and transcribed, its counters
\* add up, its report has one entry per processed row, and a row it
\* classified (not in a dry run) carries aiClassifiedAt from then on.
BatchReport ==
    BatchRunning =>
        /\ \A k \in 1..Len(batch.unclassifiedVideos) :
              /\ batch.unclassifiedVideos[k].video.aiClassifiedAt = Null
              /\ batch.unclassifiedVideos[k].video.transcriptionStatus = Some("COMPLETE")
        /\ batch.result.processed =
              batch.result.classified + batch.result.skipped + batch.result.errors
        /\ Len(batch.result.details) = batch.result.processed
        /\ \A k \in 1..Len(batch.result.details) :
              batch.result.details[k].videoId = batch.unclassifiedVideos[k].id
        /\ batch.result.classified = Cardinality(EntriesWith("classified"))
        /\ batch.result.skipped = Cardinality(EntriesWith("skipped"))
        /\ batch.result.errors = Cardinality(EntriesWith("error"))
        /\ ~batch.dryRun =>
              \A k \in EntriesWith("classified") :
                  LET v == batch.result.details[k].videoId
                  IN v \in DOMAIN videos => videos[v].aiClassifiedAt # Null

\* aiClassifiedAt, once written, stays: no step clears it.
StaysClassified ==
    \A v \in DOMAIN videos :
        videos[v].aiClassifiedAt # Null /\ v \in DOMAIN videos' =>
            videos'[v].aiClassifiedAt # Null

\* C39: the admin batch processes only videos with aiClassifiedAt NULL and
\* transcriptionStatus COMPLETE; a video a run classified carries
\* aiClassifiedAt ever after, so that no later run selects it; in every run
\* processed = classified + skipped + errors and the report has one entry
\* per processed video.  (A dry run classifies nothing: the videos it
\* reports are selected again.)
C39_BatchSelectionAndCounters == []BatchReport /\ [][StaysClassified]_vars

\* C39 witness: a run, not a dry one, is over; it selected and classified
\* v2 alone, v1 being transcribed and classified already.
C39_Witness ==
    /\ batch.pc = "done"
    /\ ~batch.dryRun
    /\ batch.result.processed = 1
    /\ batch.result.classified = 1
    /\ batch.result.details[1].videoId = "v2"
    /\ "v1" \in DOMAIN videos
    /\ videos["v1"].transcriptionStatus = Some("COMPLETE")
    /\ videos["v1"].aiClassifiedAt # Null

----------------------------------------------------------------------------
(* Properties of transcribeVideo *)

\* The changes of status the state machine has; NULL is the state of a
\* video not yet transcribed and the one a failure clears the status to.
StatusTransitions ==
    { <<Null, Some("PROCESSING")>>,
      <<Some("PROCESSING"), Some("COMPLETE")>>,
      <<Some("PROCESSING"), Some("SKIPPED")>>,
      <<Some("PROCESSING"), Some("NO_AUDIO")>>,
      <<Some("PROCESSING"), Null>> }

\* Every change of a status in the step is a transition of the machine.
StatusStep ==
    \A v \in DOMAIN videos \cap DOMAIN videos' :
        videos'[v].transcriptionStatus # videos[v].transcriptionStatus =>
            <<videos[v].transcriptionStatus, videos'[v].transcriptionStatus>>
                \in StatusTransitions

\* No call is under way for the video, and its status is PROCESSING.
LeftProcessing(v) ==
    /\ v \in DOMAIN videos
    /\ videos[v].transcriptionStatus = Some("PROCESSING")
    /\ \A p \in DOMAIN procs :
          procs[p].op = "transcribeVideo" /\ procs[p].videoId = v =>
              procs[p].pc \in {"done", "threw"}

\* C40: every change of transcriptionStatus by transcribeVideo is one of
\* NULL -> PROCESSING, PROCESSING -> COMPLETE, SKIPPED, NO_AUDIO, or, on a
\* failure, PROCESSING -> NULL (so COMPLETE, SKIPPED and NO_AUDIO are never
\* left), and no call that has ended leaves the status at PROCESSING.
C40_StatusMachine ==
    /\ [][StatusStep]_vars
    /\ [](\A v \in VideoIds : ~LeftProcessing(v))

====
